---------------------------- MODULE Spec2Model ----------------------------
(***************************************************************************)
(* A model of douyin-auto-reply: the background automation cycle of        *)
(* DetectionThread with its reply-rate policy (src/main.py), the error     *)
(* de-duplication of DouyinAutoReplyApp._on_error_occurred (src/main.py),  *)
(* and the detection engine's cadence, probes and result fusion            *)
(* (src/__pycache__/core/detector.py).                                     *)
(*                                                                         *)
(* Time is a discrete clock `now` in seconds (time.time()).  Confidence    *)
(* values are integers in units of 1/ConfScale.  Chinese strings of the    *)
(* source are written as ASCII stand-ins, named where they are defined.    *)
(* Each part of the program has its own specification (SpecOrch,           *)
(* SpecLoop, SpecRecovery, SpecCadence, SpecDetect, SpecFusion, SpecProbe,  *)
(* SpecApp, SpecStore, SpecSettings); the variables of the other parts     *)
(* stay at their initial value.                                            *)
(***************************************************************************)
EXTENDS Integers, Sequences, FiniteSets, TLC

VARIABLES
    now,                \* time.time(), in seconds
    \* ---- DetectionThread (src/main.py 148-510)
    pc,                 \* position of the thread in run()/_execute_automation_flow
    running,            \* self.running
    paused,             \* self.paused
    learning_elements,  \* self.learning_elements: role -> descriptor state
    reply_times,        \* the attribute self.reply_times of the thread
    frequency_limit,    \* config 'reply_frequency_limit'
    sleep_left,         \* seconds left of the inter-cycle wait
    sent,               \* history: times at which a send click reported success
    attempts,           \* history: number of calls of _send_auto_reply
    rejections,         \* history: number of frequency-limit rejections
    cycle_actions,      \* history: page scripts issued in the current cycle
    cycle_errors,       \* history: error_occurred signals emitted in the current cycle
    \* ---- DouyinAutoReplyApp._on_error_occurred (src/main.py 1132-1170)
    error_history,      \* self.error_history: key -> <<last_time, count>>
    prompts,            \* history: <<key, time>> of every correction dialog shown
    last_report,        \* history: the last report handled and what was done with it
    \* ---- DetectorEngine (src/__pycache__/core/detector.py)
    browser,            \* self.browser is set (False: DetectorEngine(browser=None))
    last_full_detection,\* the attribute self._last_full_detection
    last_screenshot,    \* self.last_screenshot is not None
    last_pass,          \* history: the last call of _execute_smart_detection
    detection,          \* detect_new_messages: its loop and the network cache
    results,            \* the probe results handed to _analyze_results
    new_messages,       \* what _analyze_results returned last
    previous_messages,  \* history: what the call before returned
    candidates,         \* history: the list new_messages before de-duplication
    analyses,           \* history: number of calls of _analyze_results on `results`
    \* ---- DouyinAutoReplyApp, its threads, its page and its settings
    app,                \* the window's fields (is_monitoring, is_learning, ...)
    threads,            \* every DetectionThread constructed, in order
    page,               \* the browser page: load in progress, script in flight
    store               \* ConfigManager._config_cache and the configs table

orchVars == <<pc, running, paused, learning_elements, reply_times, frequency_limit,
              sleep_left, sent, attempts, rejections, cycle_actions, cycle_errors>>
recVars == <<error_history, prompts, last_report>>
cadVars == <<browser, last_full_detection, last_screenshot, last_pass, detection>>
fusVars == <<results, new_messages, previous_messages, candidates, analyses>>
appVars == <<app, threads, page, store>>
restOrch == <<recVars, cadVars, fusVars, appVars>>
vars == <<now, orchVars, recVars, cadVars, fusVars, appVars>>

\* ------------------------------------------------------------------ bounds
MaxTime == 12
MaxClock == 210
MaxMessages == 4
MaxAnalyses == 2
MaxHits == 2
MaxThreads == 2
MaxQueued == 1
MaxSessions == 2
MaxCalls == 3

\* ------------------------------------------------------------ common helpers
Min(a, b) == IF a < b THEN a ELSE b
Max(a, b) == IF a > b THEN a ELSE b

\* s[:n] of Python
Prefix(s, n) == SubSeq(s, 1, Min(Len(s), n))

\* `sub in s` of Python, String.includes of JavaScript
Contains(s, sub) ==
    \E i \in 1..(Len(s) - Len(sub) + 1) : SubSeq(s, i, i + Len(sub) - 1) = sub

\* ======================================================================
\* DetectionThread
\* ======================================================================

\* steps = ["私信按钮", "新消息提示", "输入框", "发送按钮"]
\* (private-message button, new-message hint, input box, send button)
Roles == {"private_message_button", "new_message_hint", "input_box", "send_button"}

\* What self.learning_elements.get(role) is: nothing (no entry, or a falsy one),
\* a descriptor whose 'xpath' is missing or empty, or a descriptor with an xpath.
DescriptorStates == {"absent", "no_xpath", "xpath"}

interval == 3
MinInterval == 2
ReplyWindow == 60

\* DetectionThread.__init__ assigns detector, interval, browser, config_manager,
\* running, paused and learning_elements, and nothing else: the thread object
\* has no attribute reply_times (the attribute of that name set at main.py 652
\* belongs to the DouyinAutoReplyApp window, another object).
ThreadInitReplyTimes == [defined |-> FALSE, items |-> <<>>]

\* _check_reply_frequency: evict, then compare with the limit.  Reading the
\* missing attribute raises AttributeError, which the except clause answers
\* with True ("allow on error").
CheckReplyFrequency(rt, t, limit) ==
    IF ~rt.defined
    THEN [allow |-> TRUE, times |-> rt]
    ELSE LET kept == SelectSeq(rt.items, LAMBDA x : t - x < ReplyWindow)
         IN  [allow |-> ~(Len(kept) >= limit),
              times |-> [defined |-> TRUE, items |-> kept]]

\* _record_reply_time: self.reply_times.append(current_time); on the missing
\* attribute the AttributeError is caught and logged, nothing is recorded.
RecordReplyTime(rt, t) ==
    IF ~rt.defined
    THEN rt
    ELSE [defined |-> TRUE, items |-> Append(rt.items, t)]

Located(role) == learning_elements[role] # "absent"
HasXPath(role) == learning_elements[role] = "xpath"

InitOrch ==
    /\ pc = "start"
    /\ running = FALSE
    /\ paused = FALSE
    /\ learning_elements \in [Roles -> DescriptorStates]
    /\ reply_times = ThreadInitReplyTimes
    /\ frequency_limit \in {1, 5}
    /\ sleep_left = 0
    /\ sent = <<>>
    /\ attempts = 0
    /\ rejections = 0
    /\ cycle_actions = <<>>
    /\ cycle_errors = <<>>

IdleOrch ==
    /\ pc = "off"
    /\ running = FALSE
    /\ paused = FALSE
    /\ learning_elements = [r \in Roles |-> "absent"]
    /\ reply_times = ThreadInitReplyTimes
    /\ frequency_limit = 5
    /\ sleep_left = 0
    /\ sent = <<>>
    /\ attempts = 0
    /\ rejections = 0
    /\ cycle_actions = <<>>
    /\ cycle_errors = <<>>

\* time passes (a script runs, the thread is descheduled, ...)
Tick ==
    /\ now < MaxTime
    /\ now' = now + 1


\* One page script handed to the browser (browser.page().runJavaScript).
Issue(script) == cycle_actions' = Append(cycle_actions, script)

\* self.error_occurred.emit(type, message)
Emit(error_type) == cycle_errors' = Append(cycle_errors, error_type)

\* QThread.start(): run() sets self.running = True and enters the loop.
ThreadRun ==
    /\ pc = "start"
    /\ running' = TRUE
    /\ pc' = "loop"
    /\ UNCHANGED <<now, paused, learning_elements, reply_times, frequency_limit,
                   sleep_left, sent, attempts, rejections, cycle_actions,
                   cycle_errors, restOrch>>

\* A loop head that also leaves the loop after a cycle that emitted an error.
LoopHeadExitsAfterError ==
    /\ pc = "loop"
    /\ IF ~running \/ cycle_errors # <<>>
       THEN /\ pc' = "done"
            /\ UNCHANGED <<now, cycle_actions, cycle_errors>>
       ELSE IF paused
       THEN /\ now < MaxTime
            /\ now' = now + 1
            /\ pc' = "loop"
            /\ UNCHANGED <<cycle_actions, cycle_errors>>
       ELSE /\ pc' = "click_private_message"
            /\ cycle_actions' = <<>>
            /\ cycle_errors' = <<>>
            /\ UNCHANGED now
    /\ UNCHANGED <<running, paused, learning_elements, reply_times, frequency_limit,
                   sleep_left, sent, attempts, rejections, restOrch>>

\* A loop head that does not look at the pause flag.
LoopHeadIgnoresPause ==
    /\ pc = "loop"
    /\ IF ~running
       THEN /\ pc' = "done"
            /\ UNCHANGED <<now, cycle_actions, cycle_errors>>
       ELSE /\ pc' = "click_private_message"
            /\ cycle_actions' = <<>>
            /\ cycle_errors' = <<>>
            /\ UNCHANGED now
    /\ UNCHANGED <<running, paused, learning_elements, reply_times, frequency_limit,
                   sleep_left, sent, attempts, rejections, restOrch>>

\* `while self.running:` / `if not self.paused:`; a paused turn sleeps 1 s.
LoopHead ==
    /\ pc = "loop"
    /\ IF ~running
       THEN /\ pc' = "done"
            /\ UNCHANGED <<now, cycle_actions, cycle_errors>>
       ELSE IF paused
       THEN /\ now < MaxTime
            /\ now' = now + 1
            /\ pc' = "loop"
            /\ UNCHANGED <<cycle_actions, cycle_errors>>
       ELSE /\ pc' = "click_private_message"
            /\ cycle_actions' = <<>>
            /\ cycle_errors' = <<>>
            /\ UNCHANGED now
    /\ UNCHANGED <<running, paused, learning_elements, reply_times, frequency_limit,
                   sleep_left, sent, attempts, rejections, restOrch>>

\* A first step that, after reporting its failure, still goes on to the reset.
ClickPrivateMessageButtonThenReset ==
    /\ pc = "click_private_message"
    /\ IF ~HasXPath("private_message_button")
       THEN /\ Emit("private_message")
            /\ pc' = "return"
            /\ UNCHANGED <<now, cycle_actions>>
       ELSE \E result \in BOOLEAN :
            /\ Issue("click_private_message")
            /\ IF result
               THEN /\ now < MaxTime
                    /\ now' = now + 1
                    /\ pc' = "detect"
                    /\ UNCHANGED cycle_errors
               ELSE /\ Emit("private_message")
                    /\ pc' = "return"
                    /\ UNCHANGED now
    /\ UNCHANGED <<running, paused, learning_elements, reply_times, frequency_limit,
                   sleep_left, sent, attempts, rejections, restOrch>>

\* Step 1, _click_private_message_button; on failure _execute_automation_flow
\* emits error_occurred("private_message", ...) and the flow is over.  On
\* success the flow sleeps 1 s before step 2.
ClickPrivateMessageButton ==
    /\ pc = "click_private_message"
    /\ IF ~HasXPath("private_message_button")
       THEN /\ Emit("private_message")
            /\ pc' = "interval"
            /\ UNCHANGED <<now, cycle_actions>>
       ELSE \E result \in BOOLEAN :
            /\ Issue("click_private_message")
            /\ IF result
               THEN /\ now < MaxTime
                    /\ now' = now + 1
                    /\ pc' = "detect"
                    /\ UNCHANGED cycle_errors
               ELSE /\ Emit("private_message")
                    /\ pc' = "interval"
                    /\ UNCHANGED now
    /\ UNCHANGED <<running, paused, learning_elements, reply_times, frequency_limit,
                   sleep_left, sent, attempts, rejections, restOrch>>

\* A detection that reports an error when it finds nothing.
DetectNewMessagesReportsAbsence ==
    /\ pc = "detect"
    /\ IF ~Located("new_message_hint")
       THEN /\ pc' = "return"
            /\ Emit("detection")
            /\ UNCHANGED cycle_actions
       ELSE \E result \in BOOLEAN :
            /\ Issue(IF HasXPath("new_message_hint")
                     THEN "detect_new_message" ELSE "detect_red_dot")
            /\ pc' = IF result THEN "click_new_message" ELSE "return"
            /\ IF result THEN UNCHANGED cycle_errors ELSE Emit("detection")
    /\ UNCHANGED <<now, running, paused, learning_elements, reply_times,
                   frequency_limit, sleep_left, sent, attempts, rejections,
                   restOrch>>

\* Step 2, _detect_new_messages: no descriptor -> False without a script; an
\* xpath -> the xpath script decides; a descriptor without xpath -> the
\* generic red-dot scan decides.
DetectNewMessages ==
    /\ pc = "detect"
    /\ IF ~Located("new_message_hint")
       THEN /\ pc' = "return"
            /\ UNCHANGED cycle_actions
       ELSE \E result \in BOOLEAN :
            /\ Issue(IF HasXPath("new_message_hint")
                     THEN "detect_new_message" ELSE "detect_red_dot")
            /\ pc' = IF result THEN "click_new_message" ELSE "return"
    /\ UNCHANGED <<now, running, paused, learning_elements, reply_times,
                   frequency_limit, sleep_left, sent, attempts, rejections,
                   cycle_errors, restOrch>>

\* Step 3a, _process_new_messages -> _click_new_message, then sleep 1 s.
ClickNewMessage ==
    /\ pc = "click_new_message"
    /\ \E result \in BOOLEAN :
        /\ Issue("click_new_message")
        /\ IF result
           THEN /\ now < MaxTime
                /\ now' = now + 1
                /\ pc' = "send_auto_reply"
           ELSE /\ pc' = "return"
                /\ UNCHANGED now
    /\ UNCHANGED <<running, paused, learning_elements, reply_times, frequency_limit,
                   sleep_left, sent, attempts, rejections, cycle_errors, restOrch>>

\* Step 3b, _send_auto_reply up to the input script: the frequency check, the
\* two descriptors, the reply text written into the input box.  A descriptor
\* of the input box without xpath skips the writing and goes on to the send
\* button.
SendAutoReply ==
    /\ pc = "send_auto_reply"
    /\ attempts' = attempts + 1
    /\ LET chk == CheckReplyFrequency(reply_times, now, frequency_limit) IN
       /\ reply_times' = chk.times
       /\ IF ~chk.allow
          THEN /\ rejections' = rejections + 1
               /\ pc' = "return"
               /\ UNCHANGED cycle_actions
          ELSE /\ UNCHANGED rejections
               /\ IF ~Located("input_box") \/ ~Located("send_button")
                  THEN /\ pc' = "return"
                       /\ UNCHANGED cycle_actions
                  ELSE IF ~HasXPath("input_box")
                  THEN /\ pc' = "click_send"
                       /\ UNCHANGED cycle_actions
                  ELSE \E result \in BOOLEAN :
                       /\ Issue("write_reply")
                       /\ pc' = IF result THEN "click_send" ELSE "return"
    /\ UNCHANGED <<now, running, paused, learning_elements, frequency_limit,
                   sleep_left, sent, cycle_errors, restOrch>>

\* Step 3b continued: the send-button script; a success result is followed by
\* _record_reply_time.
ClickSendButton ==
    /\ pc = "click_send"
    /\ IF ~HasXPath("send_button")
       THEN /\ pc' = "return"
            /\ UNCHANGED <<cycle_actions, reply_times, sent>>
       ELSE \E result \in BOOLEAN :
            /\ Issue("click_send")
            /\ pc' = "return"
            /\ IF result
               THEN /\ reply_times' = RecordReplyTime(reply_times, now)
                    /\ sent' = Append(sent, now)
               ELSE UNCHANGED <<reply_times, sent>>
    /\ UNCHANGED <<now, running, paused, learning_elements, frequency_limit,
                   sleep_left, attempts, rejections, cycle_errors, restOrch>>

\* Step 4, _return_to_initial_page: window.location.href = douyin home.
ReturnToInitialPage ==
    /\ pc = "return"
    /\ Issue("return_to_initial_page")
    /\ pc' = "interval"
    /\ UNCHANGED <<now, running, paused, learning_elements, reply_times,
                   frequency_limit, sleep_left, sent, attempts, rejections,
                   cycle_errors, restOrch>>

\* random_interval = max(2, self.interval + random.randint(-1, 1))
RandomInterval(r) == Max(MinInterval, interval + r)

ChooseInterval ==
    /\ pc = "interval"
    /\ \E r \in {-1, 0, 1} : sleep_left' = RandomInterval(r)
    /\ pc' = "sleep"
    /\ UNCHANGED <<now, running, paused, learning_elements, reply_times,
                   frequency_limit, sent, attempts, rejections, cycle_actions,
                   cycle_errors, restOrch>>

\* for i in range(random_interval): if not self.running: break; time.sleep(1)
SleepSecond ==
    /\ pc = "sleep"
    /\ IF sleep_left = 0 \/ ~running
       THEN /\ pc' = "loop"
            /\ sleep_left' = 0
            /\ UNCHANGED now
       ELSE /\ now < MaxTime
            /\ now' = now + 1
            /\ sleep_left' = sleep_left - 1
            /\ pc' = "sleep"
    /\ UNCHANGED <<running, paused, learning_elements, reply_times, frequency_limit,
                   sent, attempts, rejections, cycle_actions, cycle_errors, restOrch>>

\* DetectionThread.stop(), called from the window's thread
Stop ==
    /\ pc \notin {"start", "done", "off"}
    /\ running
    /\ running' = FALSE
    /\ UNCHANGED <<now, pc, paused, learning_elements, reply_times, frequency_limit,
                   sleep_left, sent, attempts, rejections, cycle_actions,
                   cycle_errors, restOrch>>

\* DetectionThread.pause(paused), called from the window's thread
Pause ==
    /\ pc \notin {"start", "done", "off"}
    /\ paused' = ~paused
    /\ UNCHANGED <<now, pc, running, learning_elements, reply_times, frequency_limit,
                   sleep_left, sent, attempts, rejections, cycle_actions,
                   cycle_errors, restOrch>>

TickOrch == Tick /\ pc # "off" /\ UNCHANGED <<orchVars, restOrch>>

\* no window: the parts below the window are looked at on their own
IdleApp ==
    /\ app = <<>>
    /\ threads = <<>>
    /\ page = <<>>
    /\ store = <<>>

IdleRecovery ==
    /\ error_history = <<>>
    /\ prompts = <<>>
    /\ last_report = <<>>

NoPass == [time |-> 0, elapsed |-> -1, first |-> FALSE, probes |-> <<>>,
           visual |-> "not_run"]

\* A DetectorEngine on which detect_new_messages was never called.  pc: the
\* engine is inside the retry loop ("loop") or not ("idle"); retry_count:
\* the local of the call in progress; net: the attributes _last_network_check
\* and _last_network_status; attempts and returned are history: the turns of
\* the loop the last call took and what it returned ("list", or "None" when
\* the function ended without a return statement); calls counts the calls.
NoDetection ==
    [pc |-> "idle", retry_count |-> 0,
     net |-> [defined |-> FALSE, time |-> 0, status |-> FALSE],
     attempts |-> 0, returned |-> "nothing", calls |-> 0]

IdleFusion ==
    /\ results = <<>>
    /\ new_messages = <<>>
    /\ previous_messages = <<>>
    /\ candidates = <<>>
    /\ analyses = 0

IdleCadence ==
    /\ browser = FALSE
    /\ last_full_detection = [defined |-> FALSE, time |-> 0]
    /\ last_screenshot = FALSE
    /\ last_pass = NoPass
    /\ detection = NoDetection

NextOrch ==
    \/ ThreadRun
    \/ LoopHead
    \/ ClickPrivateMessageButton
    \/ DetectNewMessages
    \/ ClickNewMessage
    \/ SendAutoReply
    \/ ClickSendButton
    \/ ReturnToInitialPage
    \/ ChooseInterval
    \/ SleepSecond
    \/ Stop
    \/ Pause
    \/ TickOrch

StartOrch == now = 0 /\ InitOrch /\ IdleRecovery /\ IdleCadence /\ IdleFusion /\ IdleApp

SpecOrch == StartOrch /\ [][NextOrch]_vars


\* ----------------------------------------------------------------------
\* Claims about the reply policy and the cycle (SpecOrch)
\* ----------------------------------------------------------------------

\* the Reply Records the thread holds
RecordedTimes == IF reply_times.defined THEN reply_times.items ELSE <<>>

\* the sends that fall in the 60 s window ending at time t
SendsInWindow(t) ==
    Cardinality({i \in 1..Len(sent) : sent[i] <= t /\ t - sent[i] < ReplyWindow})

\* C1: for any per-minute limit N >= 1 and any timing of the send attempts,
\* the number of replies actually sent (send click with a success result)
\* within any rolling 60-second window never exceeds N.
C1_SendsWithinLimit ==
    \A i \in 1..Len(sent) : SendsInWindow(sent[i]) <= frequency_limit

\* C2: each confirmed send appends exactly one Reply Record stamped with the
\* current time and a rejected or failed send appends none; hence with limit
\* 5, six send attempts within 10 seconds on a page that accepts every send
\* leave exactly 5 Reply Records and exactly 1 rejection.
C2_RecordPerConfirmedSend ==
    /\ [][/\ sent' # sent => RecordedTimes' = Append(RecordedTimes, now)
          /\ sent' = sent => Len(RecordedTimes') <= Len(RecordedTimes)]_vars
    /\ [](( /\ frequency_limit = 5
            /\ attempts = 6
            /\ now <= 10
            /\ Len(sent) + rejections = attempts )
          => (Len(RecordedTimes) = 5 /\ rejections = 1))

\* C10: the orchestrator refuses a cycle when any of the four mandatory
\* locators is absent from its registry: in such a cycle no page action at
\* all is issued (no entry-point click, detection, consume, send or reset).
C10_NoActionWithoutAllLocators ==
    (\E r \in Roles : ~Located(r)) => cycle_actions = <<>>


\* ----------------------------------------------------------------------
\* The loop under a scheduler that keeps running the thread (SpecLoop)
\* ----------------------------------------------------------------------

\* the steps of the thread itself (stop(), pause() and the passing of time
\* belong to others)
ThreadStep ==
    \/ ThreadRun
    \/ LoopHead
    \/ ClickPrivateMessageButton
    \/ DetectNewMessages
    \/ ClickNewMessage
    \/ SendAutoReply
    \/ ClickSendButton
    \/ ReturnToInitialPage
    \/ ChooseInterval
    \/ SleepSecond

\* registries of a thread: nothing learned, everything learned, and an input
\* box learned without an xpath
LoopRegistries ==
    { [r \in Roles |-> "absent"],
      [r \in Roles |-> "xpath"],
      [r \in Roles |-> IF r = "input_box" THEN "no_xpath" ELSE "xpath"] }

InitLoop ==
    /\ pc = "start"
    /\ running = FALSE
    /\ paused = FALSE
    /\ learning_elements \in LoopRegistries
    /\ reply_times = ThreadInitReplyTimes
    /\ frequency_limit = 5
    /\ sleep_left = 0
    /\ sent = <<>>
    /\ attempts = 0
    /\ rejections = 0
    /\ cycle_actions = <<>>
    /\ cycle_errors = <<>>

StartLoop == now = 0 /\ InitLoop /\ IdleRecovery /\ IdleCadence /\ IdleFusion /\ IdleApp

\* the operating system schedules the thread whenever it can take a step
SpecLoop == StartLoop /\ [][NextOrch]_vars /\ WF_vars(ThreadStep)

\* the steps of _execute_automation_flow
InCycle ==
    pc \in {"click_private_message", "detect", "click_new_message",
            "send_auto_reply", "click_send", "return"}

\* the clock of the model has reached its bound
ClockAtBound == now = MaxTime

\* C14: no error terminates the background cycle: as long as stop() has not
\* been signalled and the thread is not paused, after any step failure,
\* emitted error or exception in a cycle the loop eventually starts another
\* cycle; the loop exits only after stop().
C14_LoopSurvivesErrors ==
    /\ [](pc = "done" => ~running)
    /\ (pc = "interval")
          ~> (pc = "click_private_message" \/ ~running \/ paused \/ ClockAtBound)

\* C14 witness: after a cycle that emitted an error and the wait that follows
\* it, the thread is back at the head of its loop, running and not paused.
C14_Witness ==
    /\ pc = "loop"
    /\ cycle_errors # <<>>
    /\ running
    /\ ~paused
    /\ now >= MinInterval
    /\ ~ClockAtBound

\* C15: after stop() is signalled the loop halts at the next inter-step or
\* inter-cycle boundary: no cycle step that had not yet begun when stop was
\* signalled is executed (no further page script is issued once running is
\* False), and the thread eventually terminates.
C15_NoStepAfterStop ==
    /\ [][(~running /\ pc # "start") => cycle_actions' = cycle_actions]_vars
    /\ (~running /\ pc # "start") ~> (pc = "done" \/ ClockAtBound)

\* C16: pause takes effect only at cycle boundaries: no cycle begins while the
\* pause flag is set, a cycle already in progress when pause is set runs to
\* its end, and cycles begin again after the flag is cleared.
C16_PauseAtCycleBoundaries ==
    /\ [][(pc = "loop" /\ pc' = "click_private_message") => ~paused]_vars
    /\ [][(paused /\ pc = "loop") => cycle_actions' = cycle_actions]_vars
    /\ (InCycle /\ paused) ~> (pc = "interval" \/ ClockAtBound)
    /\ (pc = "loop" /\ running /\ ~paused)
          ~> (pc = "click_private_message" \/ paused \/ ~running)

\* C16 witness: the flag was set in the middle of a cycle, after the reply
\* was written and before the send click.
C16_Witness ==
    /\ paused
    /\ pc = "click_send"
    /\ cycle_actions # <<>>
    /\ cycle_actions[Len(cycle_actions)] = "write_reply"

\* ----------------------------------------------------------------------
\* Claims about the steps of one cycle (SpecOrch)
\* ----------------------------------------------------------------------

\* the page script was issued in the current cycle
Has(script) == \E i \in 1..Len(cycle_actions) : cycle_actions[i] = script

\* C23: when the entry-point locator is missing or its activation fails, the
\* cycle reports exactly one error_occurred("private_message", ...) and goes
\* no further in that iteration: no detection, consume, send or reset step.
C23_EntryFailureEndsCycle ==
    /\ [](cycle_errors # <<>> =>
             /\ cycle_errors = <<"private_message">>
             /\ ~InCycle
             /\ cycle_actions \in {<<>>, <<"click_private_message">>})
    /\ [][(pc = "click_private_message" /\ pc' # pc /\ pc' # "detect") =>
             (pc' = "interval" /\ cycle_errors' = <<"private_message">>)]_vars

\* C23 witness: the click script was issued and answered with a failure; the
\* cycle is over with one report and no other script.
C23_Witness ==
    /\ pc = "interval"
    /\ cycle_errors = <<"private_message">>
    /\ cycle_actions = <<"click_private_message">>

\* the detection step of the current cycle is over and found no item: the
\* flow is at its reset, or past it, without a click on a new message
NoItemFound ==
    /\ ~Has("click_new_message")
    /\ pc # "click_new_message"
    /\ (pc = "return" \/ Has("return_to_initial_page"))

\* C24: when no new-item indicator is found the cycle ends quietly: no
\* error_occurred is emitted and no consume, compose or send step is
\* executed in that cycle.
C24_AbsenceIsQuiet ==
    NoItemFound =>
        /\ cycle_errors = <<>>
        /\ ~Has("write_reply")
        /\ ~Has("click_send")

\* C24 witness: the hint's xpath script ran and matched nothing; the cycle
\* ended with the reset and without a report.
C24_Witness ==
    /\ pc = "interval"
    /\ cycle_errors = <<>>
    /\ cycle_actions = <<"click_private_message", "detect_new_message",
                         "return_to_initial_page">>

\* The case of C25 (a send rejected by the rate limit) does not occur: the
\* thread has no attribute reply_times, so _check_reply_frequency answers
\* True on every call and no state of SpecOrch has a rejection.
NoRejection == rejections = 0

\* the place of a page script in the documented sequence of a cycle
Rank(script) ==
    IF script = "click_private_message" THEN 1
    ELSE IF script \in {"detect_new_message", "detect_red_dot"} THEN 2
    ELSE IF script = "click_new_message" THEN 3
    ELSE IF script = "write_reply" THEN 4
    ELSE IF script = "click_send" THEN 5
    ELSE 6

\* C26: within one cycle the page actions occur only in the order entry-point
\* click, new-item check, new-item click, write reply text, send click,
\* navigate back, each at most once; a step of the chain runs only after the
\* step before it, except that the reset runs as the last step of every cycle
\* whose entry-point click succeeded.
C26_StepsInOrder ==
    /\ \A i, j \in DOMAIN cycle_actions :
           i < j => Rank(cycle_actions[i]) < Rank(cycle_actions[j])
    /\ \A i \in DOMAIN cycle_actions :
           /\ Rank(cycle_actions[i]) > 1 => i > 1
           /\ Rank(cycle_actions[i]) \in 3..5 =>
                  Rank(cycle_actions[i - 1]) = Rank(cycle_actions[i]) - 1
    /\ (pc = "interval" /\ cycle_errors = <<>>) =>
           (cycle_actions # <<>>
            /\ cycle_actions[Len(cycle_actions)] = "return_to_initial_page")

\* C27: in the new-item check, when the learned new-item-indicator locator
\* yields no match on the page, the generic unread-marker scan is run and its
\* result decides whether a new item is detected.
C27_FallbackAfterNoMatch ==
    (Has("detect_new_message") /\ pc # "click_new_message" /\ ~Has("click_new_message"))
        => Has("detect_red_dot")

\* C39: in _send_auto_reply the send control is clicked only after the reply
\* text was written into the input field in the same cycle; when the text
\* was not written the send control is not clicked and no reply is recorded.
C39_SendOnlyAfterWrite ==
    /\ [](Has("click_send") => Has("write_reply"))
    /\ [][sent' # sent => Has("write_reply")]_vars

\* ======================================================================
\* DouyinAutoReplyApp._on_error_occurred: the error history and the
\* correction dialog
\* ======================================================================

PromptCooldown == 30
MaxOccurrences == 5
HistoryExpiry == 60
KeyPrefixLen == 50

\* error_occurred(type, message) as the thread emits it: the fixed message of
\* a failed entry-point click (main.py 247-249, "click private message button
\* failed"), and the message of a failed flow, which ends in str(e) (main.py
\* 252-254); the two flow messages agree on their first 50 characters.
ClickFailedMessage == "click private message button failed"
FlowFailedPrefix == "executing the automation flow failed: JavaScript e"
ErrorReports ==
    { [type |-> "private_message", message |-> ClickFailedMessage],
      [type |-> "automation", message |-> FlowFailedPrefix \o "rror A"],
      [type |-> "automation", message |-> FlowFailedPrefix \o "rror B"] }

\* error_key = f"{error_type}:{error_message[:50]}"
ErrorKey(error_type, error_message) ==
    error_type \o ":" \o Prefix(error_message, KeyPrefixLen)

ErrorKeys == {ErrorKey(e.type, e.message) : e \in ErrorReports}

\* seconds between two events of the model
Delays == {20, 29, 30, 61}

NoEntry == [present |-> FALSE, time |-> 0, count |-> 0]
Entry(t, c) == [present |-> TRUE, time |-> t, count |-> c]

\* Suppressed without the 30 s cooldown test
SuppressedNoCooldown(entry, t) ==
    entry.present /\ entry.count >= MaxOccurrences

\* Suppressed with the occurrence test off by one (count > 5)
SuppressedCountOffByOne(entry, t) ==
    entry.present /\ (t - entry.time < PromptCooldown \/ entry.count > MaxOccurrences)

\* "if current_time - last_time < 30 or count >= 5": no dialog, return
Suppressed(entry, t) ==
    entry.present /\ (t - entry.time < PromptCooldown \/ entry.count >= MaxOccurrences)

\* the entry written for the key of a report that is not suppressed
Recorded(entry, t) ==
    IF entry.present THEN Entry(t, entry.count + 1) ELSE Entry(t, 1)

\* "if current_time - timestamp > 60: expired_keys.append(key)" ... "del"
Purge(history, t) ==
    [k \in DOMAIN history |->
        IF history[k].present /\ t - history[k].time > HistoryExpiry
        THEN NoEntry ELSE history[k]]

InitRecovery ==
    /\ error_history = [k \in ErrorKeys |-> NoEntry]
    /\ prompts = [k \in ErrorKeys |-> [shown |-> 0, last |-> 0]]
    /\ last_report = [key |-> "", time |-> 0, prompted |-> FALSE, gap |-> -1,
                      before |-> NoEntry]

\* _on_error_occurred(error_type, error_message), run `delay` seconds after
\* the previous event.  A report that is not suppressed updates the history,
\* purges the expired entries and shows the ErrorCorrectionDialog.
OnErrorOccurred(e, delay) ==
    LET t == now + delay
        key == ErrorKey(e.type, e.message)
        entry == error_history[key]
    IN  /\ t <= MaxClock
        /\ now' = t
        /\ IF Suppressed(entry, t)
           THEN /\ UNCHANGED <<error_history, prompts>>
                /\ last_report' = [key |-> key, time |-> t, prompted |-> FALSE,
                                   gap |-> -1, before |-> entry]
           ELSE /\ error_history' =
                       Purge([error_history EXCEPT ![key] = Recorded(entry, t)], t)
                /\ prompts' = [prompts EXCEPT
                                  ![key] = [shown |-> @.shown + 1, last |-> t]]
                /\ last_report' =
                       [key |-> key, time |-> t, prompted |-> TRUE,
                        gap |-> IF prompts[key].shown = 0 THEN -1
                                ELSE t - prompts[key].last,
                        before |-> entry]
        /\ UNCHANGED <<orchVars, cadVars, fusVars, appVars>>

NextRecovery == \E e \in ErrorReports, delay \in Delays : OnErrorOccurred(e, delay)

StartRecovery == now = 0 /\ IdleOrch /\ InitRecovery /\ IdleCadence /\ IdleFusion /\ IdleApp

SpecRecovery == StartRecovery /\ [][NextRecovery]_vars


\* ----------------------------------------------------------------------
\* Claims about the recovery policy (SpecRecovery)
\* ----------------------------------------------------------------------

Reported == last_report.key # ""

\* C3: the recovery policy never raises two correction prompts for the same
\* key (type + first 50 characters of the message) less than 30 seconds
\* apart; in particular an error first seen and reported again within 20
\* seconds raises exactly one prompt (the first report prompts, the second
\* does not).
C3_PromptsThirtySecondsApart ==
    Reported =>
        /\ (last_report.prompted /\ last_report.gap # -1)
              => last_report.gap >= PromptCooldown
        /\ ~last_report.before.present => last_report.prompted

\* C3 witness: the second report of a key, 20 s after its first prompt, was
\* handled without a dialog.
C3_Witness ==
    /\ Reported
    /\ ~last_report.prompted
    /\ last_report.before.present
    /\ last_report.before.count = 1
    /\ last_report.time - last_report.before.time = 20
    /\ prompts[last_report.key].shown = 1

\* C4: once the recorded occurrence count of a key has reached 5, no further
\* prompt is raised for that key while its entry remains in the history,
\* whatever the spacing of the later reports.
C4_NoPromptAfterFiveOccurrences ==
    (Reported /\ last_report.before.present
              /\ last_report.before.count >= MaxOccurrences)
        => (~last_report.prompted /\ error_history[last_report.key] = last_report.before)

\* C4 witness: a report arriving at least 30 s after the fifth prompt of its
\* key was handled without a dialog.
C4_Witness ==
    /\ Reported
    /\ last_report.before.present
    /\ last_report.before.count = MaxOccurrences
    /\ last_report.time - last_report.before.time >= PromptCooldown
    /\ ~last_report.prompted

\* C5: an entry idle for 60 seconds is expired: the next error reported with
\* that key is handled as a first sighting (it raises a prompt and its count
\* restarts at 1), even if the key had reached 5 occurrences.
C5_IdleEntryIsFirstSighting ==
    (Reported /\ last_report.before.present
              /\ last_report.time - last_report.before.time > HistoryExpiry)
        => /\ last_report.prompted
           /\ error_history[last_report.key] = Entry(last_report.time, 1)


\* ======================================================================
\* DetectorEngine._execute_smart_detection: which probes a pass runs
\* ======================================================================

FullDetectionPeriod == 60

AllProbes == <<"visual", "dom", "css", "scroll">>
QuickProbes == <<"dom", "css">>

\* Quick detection with the comparison of the prose ("more than 60 seconds ...
\* otherwise"): elapsed <= 60
QuickDetectionUpToPeriod(lfd, t) ==
    lfd.defined /\ t - lfd.time <= FullDetectionPeriod

\* "if hasattr(self, '_last_full_detection')" and
\* "if time_since_full_detection < 60": the quick (dom + css) pass
QuickDetection(lfd, t) ==
    lfd.defined /\ t - lfd.time < FullDetectionPeriod

\* visual_detect, as far as the engine's own state goes: without a capture
\* (no browser, or the capture failed) the probe simulates; the first capture
\* becomes the baseline and detects nothing; a later one is compared with the
\* previous capture and replaces it.
VisualOutcome(captured) ==
    IF ~captured THEN "simulated"
    ELSE IF ~last_screenshot THEN "baseline"
    ELSE "compared"

InitCadence ==
    /\ browser \in BOOLEAN
    /\ last_full_detection = [defined |-> FALSE, time |-> 0]
    /\ last_screenshot = FALSE
    /\ last_pass = NoPass
    /\ detection = NoDetection

\* A dispatch that moves the full-pass timestamp on every pass, reduced ones
\* included.
ExecuteSmartDetectionStampsEvery(delay, capture_ok) ==
    LET t == now + delay
        quick == QuickDetection(last_full_detection, t)
        captured == browser /\ capture_ok
    IN  /\ t <= MaxClock
        /\ now' = t
        /\ last_full_detection' = [defined |-> TRUE, time |-> t]
        /\ last_screenshot' = IF quick THEN last_screenshot
                              ELSE (last_screenshot \/ captured)
        /\ last_pass' =
              [time |-> t,
               first |-> ~last_full_detection.defined,
               elapsed |-> IF last_full_detection.defined
                           THEN t - last_full_detection.time ELSE -1,
               probes |-> IF quick THEN QuickProbes ELSE AllProbes,
               visual |-> IF quick THEN "not_run" ELSE VisualOutcome(captured)]
        /\ UNCHANGED <<browser, detection, orchVars, recVars, fusVars, appVars>>

\* _execute_smart_detection, called `delay` seconds after the previous call.
\* Every probe catches its own exceptions, so the dispatch itself does not
\* raise.
ExecuteSmartDetection(delay, capture_ok) ==
    LET t == now + delay
        quick == QuickDetection(last_full_detection, t)
        captured == browser /\ capture_ok
    IN  /\ t <= MaxClock
        /\ now' = t
        /\ last_full_detection' =
              IF quick THEN last_full_detection ELSE [defined |-> TRUE, time |-> t]
        /\ last_screenshot' = IF quick THEN last_screenshot
                              ELSE (last_screenshot \/ captured)
        /\ last_pass' =
              [time |-> t,
               first |-> ~last_full_detection.defined,
               elapsed |-> IF last_full_detection.defined
                           THEN t - last_full_detection.time ELSE -1,
               probes |-> IF quick THEN QuickProbes ELSE AllProbes,
               visual |-> IF quick THEN "not_run" ELSE VisualOutcome(captured)]
        /\ UNCHANGED <<browser, detection, orchVars, recVars, fusVars, appVars>>

CallDelays == {1, 29, 59, 60, 61}

NextCadence ==
    \E delay \in CallDelays, capture_ok \in BOOLEAN :
        ExecuteSmartDetection(delay, capture_ok)

StartCadence == now = 0 /\ IdleOrch /\ IdleRecovery /\ InitCadence /\ IdleFusion /\ IdleApp

SpecCadence == StartCadence /\ [][NextCadence]_vars

\* ----------------------------------------------------------------------
\* Claims about the cadence (SpecCadence)
\* ----------------------------------------------------------------------

Called == last_pass.probes # <<>>
FullPass == last_pass.probes = AllProbes /\ last_full_detection.defined
                /\ last_full_detection.time = last_pass.time
QuickPass == last_pass.probes = QuickProbes
                /\ last_full_detection.time = last_pass.time - last_pass.elapsed

C28_ReducedPassKeepsTimestamp ==
    /\ [][(last_pass' # last_pass /\ last_pass'.probes = QuickProbes) =>
             last_full_detection' = last_full_detection]_vars
    /\ [][(last_pass' # last_pass /\ last_pass'.probes = AllProbes) =>
             last_full_detection' = [defined |-> TRUE, time |-> last_pass'.time]]_vars
    /\ []((Called /\ last_pass.elapsed > FullDetectionPeriod) =>
             last_pass.probes = AllProbes)

\* C28 witness: a full pass made 87 s after the full pass before it; no two
\* calls are more than 61 s apart, so reduced passes lie in between (at 29 s
\* and 58 s).
C28_Witness ==
    /\ Called
    /\ last_pass.probes = AllProbes
    /\ last_pass.elapsed = 87


\* ======================================================================
\* DetectorEngine.detect_new_messages: the retry loop around one pass
\* ======================================================================

MaxRetries == 3
NetworkCacheSeconds == 30

\* _check_network_connection at time t: within 30 s of the last check the
\* cached status is returned, otherwise the site is fetched (net_ok) and
\* the cache is renewed
NetworkCached(net, t) == net.defined /\ t - net.time < NetworkCacheSeconds
CheckNetworkConnection(net, t, net_ok) ==
    IF NetworkCached(net, t)
    THEN [status |-> net.status, net |-> net]
    ELSE [status |-> net_ok, net |-> [defined |-> TRUE, time |-> t, status |-> net_ok]]

\* _check_browser_status: "if not self.browser: return False", else True
CheckBrowserStatus == browser

\* detect_new_messages is called, `delay` seconds after the last event
DetectNewMessagesCall(delay) ==
    /\ detection.pc = "idle"
    /\ detection.calls < MaxCalls
    /\ now + delay <= MaxClock
    /\ now' = now + delay
    /\ detection' = [detection EXCEPT !.pc = "loop", !.retry_count = 0,
                                      !.attempts = 0, !.returned = "nothing",
                                      !.calls = @ + 1]
    /\ UNCHANGED <<browser, last_full_detection, last_screenshot, last_pass,
                   orchVars, recVars, fusVars, appVars>>

\* One turn of "while retry_count < max_retries".  A failed network or
\* browser check sleeps 1 s, counts and continues.  Otherwise the pass and
\* the analysis run and their list is returned; an exception (raised) is
\* counted, and below the maximum the loop sleeps 2 s and goes on, at the
\* maximum it returns [].
DetectAttempt(net_ok, capture_ok, raised) ==
    LET check == CheckNetworkConnection(detection.net, now, net_ok)
        counted == [detection EXCEPT !.net = check.net, !.retry_count = @ + 1,
                                     !.attempts = @ + 1]
        quick == QuickDetection(last_full_detection, now)
        captured == browser /\ capture_ok
    IN  /\ detection.pc = "loop"
        /\ detection.retry_count < MaxRetries
        /\ IF ~check.status \/ ~CheckBrowserStatus
           THEN /\ now + 1 <= MaxClock
                /\ now' = now + 1
                /\ detection' = counted
                /\ UNCHANGED <<last_full_detection, last_screenshot, last_pass>>
           ELSE /\ last_full_detection' =
                      IF quick THEN last_full_detection
                      ELSE [defined |-> TRUE, time |-> now]
                /\ last_screenshot' = IF quick THEN last_screenshot
                                      ELSE (last_screenshot \/ captured)
                /\ last_pass' =
                      [time |-> now,
                       first |-> ~last_full_detection.defined,
                       elapsed |-> IF last_full_detection.defined
                                   THEN now - last_full_detection.time ELSE -1,
                       probes |-> IF quick THEN QuickProbes ELSE AllProbes,
                       visual |-> IF quick THEN "not_run" ELSE VisualOutcome(captured)]
                /\ IF ~raised
                   THEN /\ detection' = [detection EXCEPT !.net = check.net,
                                             !.attempts = @ + 1,
                                             !.pc = "idle", !.returned = "list"]
                        /\ UNCHANGED now
                   ELSE IF counted.retry_count < MaxRetries
                   THEN /\ now + 2 <= MaxClock
                        /\ now' = now + 2
                        /\ detection' = counted
                   ELSE /\ detection' = [counted EXCEPT !.pc = "idle",
                                                        !.returned = "list"]
                        /\ UNCHANGED now
        /\ UNCHANGED <<browser, orchVars, recVars, fusVars, appVars>>

\* the condition of the while loop is false: the function ends after the
\* loop, where it has no return statement
DetectLoopExit ==
    /\ detection.pc = "loop"
    /\ detection.retry_count >= MaxRetries
    /\ detection' = [detection EXCEPT !.pc = "idle", !.returned = "None"]
    /\ UNCHANGED <<now, browser, last_full_detection, last_screenshot, last_pass,
                   orchVars, recVars, fusVars, appVars>>

DetectDelays == {1, 29, 61}

NextDetect ==
    \/ \E delay \in DetectDelays : DetectNewMessagesCall(delay)
    \/ \E net_ok \in BOOLEAN, capture_ok \in BOOLEAN, raised \in BOOLEAN :
           DetectAttempt(net_ok, capture_ok, raised)
    \/ DetectLoopExit

StartDetect == now = 0 /\ IdleOrch /\ IdleRecovery /\ InitCadence /\ IdleFusion /\ IdleApp

SpecDetect == StartDetect /\ [][NextDetect]_vars

\* ----------------------------------------------------------------------
\* Claims about detect_new_messages (SpecDetect)
\* ----------------------------------------------------------------------

\* C35: a call of detect_new_messages makes at most three attempts and
\* returns a list, whatever the attempts ran into (the network check or the
\* browser check failing on every attempt included).
C35_ThreeAttemptsThenList ==
    /\ detection.attempts <= MaxRetries
    /\ (detection.pc = "idle" /\ detection.returned # "nothing") =>
           detection.returned = "list"


\* ======================================================================
\* DetectorEngine._analyze_results: normalisation, de-duplication, ranking
\* ======================================================================

ConfScale == 10000
TextPrefixLen == 50

\* dict.get(key, default)
Get(d, key, default) == IF key \in DOMAIN d THEN d[key] ELSE default

\* d[key] = value
SetKey(d, key, value) ==
    [k \in DOMAIN d \cup {key} |-> IF k = key THEN value ELSE d[k]]

\* Chinese literals of the source, as ASCII stand-ins (pinyin): weidu = unread,
\* xin = new, xiaoxi = message, huifu = reply, tongzhi = notification.
Unread == "weidu"
New == "xin"
Keywords == <<"weidu", "xinxiaoxi", "xiaoxi", "huifu", "tongzhi">>
VisualText == "shijuebianhuajiancedaodexinxiaoxi"
CssDefaultText == "CSSjiancedaodexinxiaoxi"

\* the part of one probe result that carries its items
Items(result) ==
    IF result.method = "dom" THEN Get(result, "messages", <<>>)
    ELSE IF result.method = "visual" THEN Get(result, "changes", <<>>)
    ELSE IF result.method = "css" THEN Get(result, "elements", <<>>)
    ELSE <<>>

\* Normalized giving every changed region a display text of its own
NormalizedTextPerRegion(method, item, sofar) ==
    IF method = "dom"
    THEN <<SetKey(item, "detection_method", "dom")>>
    ELSE IF method = "visual"
    THEN <<[index |-> Get(item, "index", Len(sofar) + 1),
            selector |-> "visual_change_"
                            \o ToString(Get(item, "index", Len(sofar) + 1)),
            text |-> VisualText \o ToString(Get(item, "index", Len(sofar) + 1)),
            detection_method |-> "visual",
            confidence |-> Get(item, "confidence", (8 * ConfScale) \div 10)]>>
    ELSE IF method = "css"
    THEN IF Contains(Get(item, "description", ""), Unread)
              \/ Contains(Get(item, "description", ""), New)
         THEN <<[index |-> Len(sofar) + 1,
                 selector |-> Get(item, "selector", ""),
                 text |-> Get(item, "text", CssDefaultText),
                 detection_method |-> "css"]>>
         ELSE <<>>
    ELSE <<>>

\* Normalized keeping every element of the style probe, whatever its
\* description
NormalizedEveryStyleHit(method, item, sofar) ==
    IF method = "dom"
    THEN <<SetKey(item, "detection_method", "dom")>>
    ELSE IF method = "visual"
    THEN <<[index |-> Get(item, "index", Len(sofar) + 1),
            selector |-> "visual_change_"
                            \o ToString(Get(item, "index", Len(sofar) + 1)),
            text |-> VisualText,
            detection_method |-> "visual",
            confidence |-> Get(item, "confidence", (8 * ConfScale) \div 10)]>>
    ELSE IF method = "css"
    THEN <<[index |-> Len(sofar) + 1,
            selector |-> Get(item, "selector", ""),
            text |-> Get(item, "text", CssDefaultText),
            detection_method |-> "css"]>>
    ELSE <<>>

\* The candidate one item of a detected result contributes, given the list
\* built so far; <<>> when it contributes none.
Normalized(method, item, sofar) ==
    IF method = "dom"
    THEN <<SetKey(item, "detection_method", "dom")>>
    ELSE IF method = "visual"
    THEN <<[index |-> Get(item, "index", Len(sofar) + 1),
            selector |-> "visual_change_"
                            \o ToString(Get(item, "index", Len(sofar) + 1)),
            text |-> VisualText,
            detection_method |-> "visual",
            confidence |-> Get(item, "confidence", (8 * ConfScale) \div 10)]>>
    ELSE IF method = "css"
    THEN IF Contains(Get(item, "description", ""), Unread)
              \/ Contains(Get(item, "description", ""), New)
         THEN <<[index |-> Len(sofar) + 1,
                 selector |-> Get(item, "selector", ""),
                 text |-> Get(item, "text", CssDefaultText),
                 detection_method |-> "css"]>>
         ELSE <<>>
    ELSE <<>>

RECURSIVE AddItems(_, _, _, _)
AddItems(method, items, j, sofar) ==
    IF j > Len(items) THEN sofar
    ELSE AddItems(method, items, j + 1, sofar \o Normalized(method, items[j], sofar))

\* "for result in results: ... if detected: ..." (lines 756-793)
RECURSIVE Collect(_, _, _)
Collect(rs, i, sofar) ==
    IF i > Len(rs) THEN sofar
    ELSE Collect(rs, i + 1,
                 IF Get(rs[i], "detected", FALSE) = TRUE
                 THEN AddItems(rs[i].method, Items(rs[i]), 1, sofar)
                 ELSE sofar)

\* A variant that leaves out the messages an earlier call already tagged.
TaggedOnceSkipped(rs) ==
    Collect([i \in DOMAIN rs |->
               IF rs[i].method = "dom" /\ "messages" \in DOMAIN rs[i]
               THEN [rs[i] EXCEPT !.messages =
                        SelectSeq(@, LAMBDA m : "detection_method" \notin DOMAIN m)]
               ELSE rs[i]], 1, <<>>)

\* the list new_messages after the first loop
NewMessages(rs) == Collect(rs, 1, <<>>)

\* The probe results after the call: the first loop writes
\* msg['detection_method'] = 'dom' into the dom probe's own message dicts.
AfterAnalysis(rs) ==
    [i \in DOMAIN rs |->
        IF rs[i].method = "dom" /\ Get(rs[i], "detected", FALSE) = TRUE
                                 /\ "messages" \in DOMAIN rs[i]
        THEN [rs[i] EXCEPT !.messages =
                 [j \in DOMAIN @ |-> SetKey(@[j], "detection_method", "dom")]]
        ELSE rs[i]]

SelectorTextKey(msg) ==
    Get(msg, "selector", "") \o "_" \o Prefix(Get(msg, "text", ""), TextPrefixLen)
TextKey(msg) == "text_" \o Prefix(Get(msg, "text", ""), TextPrefixLen)
SelectorKey(msg) == "selector_" \o Get(msg, "selector", "")

\* IsDuplicate without the test of the selector key
IsDuplicateNoSelectorKey(msg, seen) ==
    \/ SelectorTextKey(msg) \in seen
    \/ (Get(msg, "text", "") # "" /\ TextKey(msg) \in seen)

\* IsDuplicate without the test of the text key
IsDuplicateNoTextKey(msg, seen) ==
    \/ SelectorTextKey(msg) \in seen
    \/ (Get(msg, "selector", "") # "" /\ SelectorKey(msg) \in seen)

\* lines 814-827
IsDuplicate(msg, seen) ==
    \/ SelectorTextKey(msg) \in seen
    \/ (Get(msg, "text", "") # "" /\ TextKey(msg) \in seen)
    \/ (Get(msg, "selector", "") # "" /\ SelectorKey(msg) \in seen)

\* lines 829-835
KeysOf(msg) ==
    {SelectorTextKey(msg)}
        \cup (IF Get(msg, "text", "") # "" THEN {TextKey(msg)} ELSE {})
        \cup (IF Get(msg, "selector", "") # "" THEN {SelectorKey(msg)} ELSE {})

\* Unique recording the keys of every candidate, the dropped ones included
RECURSIVE UniqueRemembersDropped(_, _, _, _)
UniqueRemembersDropped(msgs, i, seen, kept) ==
    IF i > Len(msgs) THEN kept
    ELSE IF IsDuplicate(msgs[i], seen)
         THEN UniqueRemembersDropped(msgs, i + 1, seen \cup KeysOf(msgs[i]), kept)
         ELSE UniqueRemembersDropped(msgs, i + 1, seen \cup KeysOf(msgs[i]),
                                     Append(kept, msgs[i]))

\* "for msg in new_messages: ..." (lines 795-837): unique_messages
RECURSIVE Unique(_, _, _, _)
Unique(msgs, i, seen, kept) ==
    IF i > Len(msgs) THEN kept
    ELSE IF IsDuplicate(msgs[i], seen)
         THEN Unique(msgs, i + 1, seen, kept)
         ELSE Unique(msgs, i + 1, seen \cup KeysOf(msgs[i]), Append(kept, msgs[i]))

MethodWeight(method) ==
    IF method = "dom" THEN 10
    ELSE IF method = "css" THEN 8
    ELSE IF method = "visual" THEN 6
    ELSE 4

RECURSIVE KeywordHits(_, _)
KeywordHits(text, k) ==
    IF k > Len(Keywords) THEN 0
    ELSE (IF Contains(text, Keywords[k]) THEN 1 ELSE 0) + KeywordHits(text, k + 1)

SelectorBonus(selector) ==
    IF Contains(selector, "unread") \/ Contains(selector, "new")
                                    \/ Contains(selector, "red") THEN 2
    ELSE IF Contains(selector, "message") \/ Contains(selector, "chat") THEN 1
    ELSE 0

\* message_score, in units of 1/ConfScale
MessageScore(msg) ==
    (MethodWeight(Get(msg, "detection_method", "unknown")) * 5 * ConfScale) \div 10
      + Get(msg, "confidence", 0) * 3
      + KeywordHits(Get(msg, "text", ""), 1) * 2 * ConfScale
      + SelectorBonus(Get(msg, "selector", "")) * ConfScale

\* InsertByScore placing a candidate before the candidates of equal score
RECURSIVE InsertBeforeEqual(_, _)
InsertBeforeEqual(sorted, msg) ==
    IF sorted = <<>> THEN <<msg>>
    ELSE IF MessageScore(Head(sorted)) > MessageScore(msg)
         THEN <<Head(sorted)>> \o InsertBeforeEqual(Tail(sorted), msg)
         ELSE <<msg>> \o sorted

\* list.sort(key=message_score, reverse=True): stable, equal scores keep
\* their order
RECURSIVE InsertByScore(_, _)
InsertByScore(sorted, msg) ==
    IF sorted = <<>> THEN <<msg>>
    ELSE IF MessageScore(Head(sorted)) >= MessageScore(msg)
         THEN <<Head(sorted)>> \o InsertByScore(Tail(sorted), msg)
         ELSE <<msg>> \o sorted

RECURSIVE SortByScore(_, _, _)
SortByScore(msgs, i, sorted) ==
    IF i > Len(msgs) THEN sorted
    ELSE SortByScore(msgs, i + 1, InsertByScore(sorted, msgs[i]))

\* _analyze_results(results): the returned list
AnalyzeResults(rs) == SortByScore(Unique(NewMessages(rs), 1, {}, <<>>), 1, <<>>)


\* ---- probe results handed to _analyze_results

ListSelector == "#list > div:nth-child(1)"
UnreadSelector == ".chat-item.unread"
LongText == "A new message whose text is longer than fifty characters"

\* messages as the page script of dom_detect returns them (selector, text,
\* confidence; className, id and rect play no part in the analysis)
DomItems ==
    { [selector |-> ListSelector, text |-> "New message", confidence |-> 7000],
      [selector |-> ListSelector, text |-> "new message", confidence |-> 7000],
      [selector |-> ListSelector, text |-> "NEW MESSAGE", confidence |-> 5000],
      [selector |-> ListSelector, text |-> "New Message", confidence |-> 5000],
      [selector |-> ListSelector, text |-> LongText \o ", B", confidence |-> 7000],
      [selector |-> UnreadSelector, text |-> "New message", confidence |-> 10000],
      [selector |-> UnreadSelector, text |-> LongText \o ", A", confidence |-> 10000],
      [selector |-> UnreadSelector, text |-> "xinxiaoxi 1", confidence |-> 10000] }

SeqsUpTo(S, n) == UNION {[1..k -> S] : k \in 0..n}

\* The script de-duplicates by selector + '|' + text.substring(0, 50) and
\* sorts by descending confidence (lines 415-427).
DomScriptKey(m) == m.selector \o "|" \o Prefix(m.text, TextPrefixLen)
RealDomLists ==
    { l \in SeqsUpTo(DomItems, MaxMessages) :
        /\ \A i, j \in 1..Len(l) : i # j => DomScriptKey(l[i]) # DomScriptKey(l[j])
        /\ \A i \in 1..(Len(l) - 1) : l[i].confidence >= l[i + 1].confidence }

\* the simulated dom messages (lines 453-461): no confidence
SimDomMessage(i) ==
    [index |-> i,
     selector |-> "#message-list > div:nth-child(" \o ToString(i) \o ")",
     text |-> "xinxiaoxi " \o ToString(i)]
SimDomLists == {<<>>, <<SimDomMessage(1)>>, <<SimDomMessage(1), SimDomMessage(2)>>}

\* elements as the page script of css_detect returns them (confidence > 0.5,
\* sorted by descending confidence): weidubiaoji = "unread mark",
\* zuixinyuansu = "latest element", shuliangbiaoji = "count mark"
RealCssLists ==
    { <<>>,
      <<[selector |-> ".red-dot", status |-> "active",
         description |-> "weidubiaoji", text |-> "new message",
         confidence |-> 9000]>>,
      <<[selector |-> ".badge", status |-> "active",
         description |-> "shuliangbiaoji", text |-> "3", confidence |-> 8000],
        [selector |-> ".latest", status |-> "active",
         description |-> "zuixinyuansu", text |-> "Hello", confidence |-> 8000]>>,
      \* two marks without any text (textContent.trim() is empty)
      <<[selector |-> ".red-dot", status |-> "active",
         description |-> "weidubiaoji", text |-> "", confidence |-> 9000],
        [selector |-> ".new", status |-> "active",
         description |-> "zuixinyuansu", text |-> "", confidence |-> 8000]>>,
      \* an element of class new_msg and one of class new, with different texts
      <<[selector |-> ".new_msg", status |-> "active",
         description |-> "zuixinyuansu", text |-> "hello", confidence |-> 8000],
        [selector |-> ".new", status |-> "active",
         description |-> "zuixinyuansu", text |-> "msg_hello", confidence |-> 8000]>> }

\* the simulated css elements (lines 616-624): no description, no text
SimCssLists ==
    { <<>>,
      <<[selector |-> ".message-item:nth-child(1)", status |-> "unread",
         confidence |-> 7000]>> }

\* changed regions of _analyze_diff (index = contour number) or of the
\* simulation
VisualLists ==
    { <<>>,
      <<[type |-> "message", index |-> 1, confidence |-> 10000],
        [type |-> "message", index |-> 3, confidence |-> 150]>> }

DomResult(l) == [method |-> "dom", detected |-> Len(l) > 0, messages |-> l]
CssResult(l) == [method |-> "css", detected |-> Len(l) > 0, elements |-> l]
VisualResult(l) == [method |-> "visual", detected |-> Len(l) > 0, changes |-> l]
ScrollResult == [method |-> "scroll", scrolled |-> TRUE, position |-> 200]

\* what _execute_smart_detection can return: a full or a quick pass, of an
\* engine with a browser or without one
PassResults ==
    {<<VisualResult(v), DomResult(d), CssResult(c), ScrollResult>> :
        v \in VisualLists, d \in RealDomLists, c \in RealCssLists}
    \cup {<<DomResult(d), CssResult(c)>> : d \in RealDomLists, c \in RealCssLists}
    \cup {<<VisualResult(v), DomResult(d), CssResult(c), ScrollResult>> :
        v \in VisualLists, d \in SimDomLists, c \in SimCssLists}

InitFusion ==
    /\ results \in PassResults
    /\ new_messages = <<>>
    /\ previous_messages = <<>>
    /\ candidates = <<>>
    /\ analyses = 0

\* one call of _analyze_results on the results held
Analyze ==
    /\ analyses < MaxAnalyses
    /\ analyses' = analyses + 1
    /\ previous_messages' = new_messages
    /\ candidates' = NewMessages(results)
    /\ new_messages' = AnalyzeResults(results)
    /\ results' = AfterAnalysis(results)
    /\ UNCHANGED <<now, orchVars, recVars, cadVars, appVars>>

NextFusion == Analyze

StartFusion == now = 0 /\ IdleOrch /\ IdleRecovery /\ IdleCadence /\ InitFusion /\ IdleApp

SpecFusion == StartFusion /\ [][NextFusion]_vars

\* ----------------------------------------------------------------------
\* Claims about the fusion (SpecFusion)
\* ----------------------------------------------------------------------

\* C7: fusion is idempotent and deterministic: running _analyze_results twice
\* on the same raw probe outputs yields the same ranked candidate list (same
\* candidates, same order) both times.
C7_SameListTwice ==
    analyses >= 2 => new_messages = previous_messages

\* C7 witness: a second run over results whose dom messages the first run
\* tagged, returning a list that de-duplication shortened and that holds
\* candidates of the three methods.
C7_Witness ==
    /\ analyses = 2
    /\ Len(new_messages) < Len(candidates)
    /\ \A m \in {"dom", "css", "visual"} :
          \E i \in 1..Len(new_messages) : new_messages[i].detection_method = m
    /\ \E i \in 1..Len(results) :
          /\ results[i].method = "dom"
          /\ \E j \in 1..Len(results[i].messages) :
                "detection_method" \in DOMAIN results[i].messages[j]

WithSelector(msgs, s) == SelectSeq(msgs, LAMBDA m : Get(m, "selector", "") = s)
Selectors(msgs) == {Get(msgs[i], "selector", "") : i \in 1..Len(msgs)} \ {""}

AllKeys(msg) == {SelectorTextKey(msg), TextKey(msg), SelectorKey(msg)}

\* the keys of a candidate that count: the text key only of a non-empty
\* text, the selector key only of a non-empty selector
CountedKeys(msg) ==
    {SelectorTextKey(msg)}
        \cup {TextKey(msg) : x \in {t \in {Get(msg, "text", "")} : t # ""}}
        \cup {SelectorKey(msg) : x \in {t \in {Get(msg, "selector", "")} : t # ""}}

\* candidate i of msgs is kept when every key counts: none of its three keys
\* is a key of a candidate kept before it
RECURSIVE KeptByAllKeys(_, _)
KeptByAllKeys(msgs, i) ==
    \A j \in 1..(i - 1) :
        KeptByAllKeys(msgs, j) => AllKeys(msgs[j]) \cap AllKeys(msgs[i]) = {}

\* candidate i of msgs is kept: none of its counted keys is a counted key of
\* a candidate kept before it
RECURSIVE KeptByCountedKeys(_, _)
KeptByCountedKeys(msgs, i) ==
    \A j \in 1..(i - 1) :
        KeptByCountedKeys(msgs, j) => CountedKeys(msgs[j]) \cap CountedKeys(msgs[i]) = {}

\* the candidates of the fused list, as a set
Fused == {new_messages[i] : i \in 1..Len(new_messages)}

\* C29 as stated: processing the candidates in input order with a seen-key
\* set that starts empty on every pass, a candidate is dropped if any of its
\* three keys (selector + first 50 characters of text, first 50 characters of
\* text alone, selector alone) was already seen in the pass, and is kept
\* otherwise.
C29_Original ==
    analyses >= 1 =>
        LET kept == {i \in 1..Len(candidates) : KeptByAllKeys(candidates, i)}
        IN  /\ Fused = {candidates[i] : i \in kept}
            /\ Len(new_messages) = Cardinality(kept)

\* C29 amended: a candidate is dropped if its selector-and-text key, or the
\* text key of its non-empty text, or the selector key of its non-empty
\* selector, is a key of a candidate kept earlier in the same pass, and is
\* kept otherwise; an empty text and an empty selector make no key.
C29_KeptUnlessKeySeen ==
    analyses >= 1 =>
        LET kept == {i \in 1..Len(candidates) : KeptByCountedKeys(candidates, i)}
        IN  /\ Fused = {candidates[i] : i \in kept}
            /\ Len(new_messages) = Cardinality(kept)

\* C29 witness: a pass with two marks without text and with different
\* selectors, both kept, and with a candidate that was dropped.
C29_Witness ==
    /\ analyses >= 1
    /\ Len(new_messages) < Len(candidates)
    /\ \E m1, m2 \in Fused :
          /\ m1.text = "" /\ m2.text = ""
          /\ m1.selector # m2.selector

\* method_weight * 5: dom 1.0, css 0.8, visual 0.6, any other method 0.4
WeightTimesFive(msg) ==
    LET method == Get(msg, "detection_method", "unknown")
    IN  IF method = "dom" THEN 5
        ELSE IF method = "css" THEN 4
        ELSE IF method = "visual" THEN 3
        ELSE 2

\* the number of keywords the text contains
KeywordHitCount(msg) ==
    Cardinality({k \in 1..Len(Keywords) : Contains(Get(msg, "text", ""), Keywords[k])})

\* 2 for a selector with unread, new or red, else 1 with message or chat
SelectorHintBonus(msg) ==
    LET selector == Get(msg, "selector", "")
    IN  IF \E w \in {"unread", "new", "red"} : Contains(selector, w) THEN 2
        ELSE IF \E w \in {"message", "chat"} : Contains(selector, w) THEN 1
        ELSE 0

\* the composite score of a candidate, in units of 1/ConfScale
CompositeScore(msg) ==
    WeightTimesFive(msg) * ConfScale + Get(msg, "confidence", 0) * 3
        + KeywordHitCount(msg) * 2 * ConfScale + SelectorHintBonus(msg) * ConfScale

\* the place of the first appearance of a candidate in the pass
FirstAppearance(msg) ==
    CHOOSE k \in 1..Len(candidates) :
        /\ candidates[k] = msg
        /\ \A l \in 1..(k - 1) : candidates[l] # msg

\* C30: the fused output holds candidates of the pass ordered by
\* non-increasing composite score (method weight * 5 + confidence * 3 +
\* keyword hits * 2 + selector bonus), and candidates of equal score keep
\* their order of first appearance.
C30_SortedByScore ==
    analyses >= 1 =>
        /\ \A i \in 1..Len(new_messages) :
              \E k \in 1..Len(candidates) : candidates[k] = new_messages[i]
        /\ \A i, j \in 1..Len(new_messages) :
              i < j =>
                /\ CompositeScore(new_messages[i]) >= CompositeScore(new_messages[j])
                /\ CompositeScore(new_messages[i]) = CompositeScore(new_messages[j])
                      => FirstAppearance(new_messages[i]) < FirstAppearance(new_messages[j])

\* C30 witness: a pass whose output moved a later candidate before an
\* earlier one, and holds two candidates of equal score.
C30_Witness ==
    /\ analyses >= 1
    /\ \E i, j \in 1..Len(new_messages) :
          /\ i < j
          /\ FirstAppearance(new_messages[i]) > FirstAppearance(new_messages[j])
    /\ \E i, j \in 1..Len(new_messages) :
          /\ i < j
          /\ CompositeScore(new_messages[i]) = CompositeScore(new_messages[j])

\* the elements the style probe of the pass reported
StyleElements ==
    UNION {{r.elements[k] : k \in 1..Len(r.elements)} :
              r \in {results[i] : i \in {n \in 1..Len(results) :
                                            /\ results[n].method = "css"
                                            /\ "elements" \in DOMAIN results[n]}}}

\* C31: the confidence that enters the score of a css candidate of the fused
\* list is the confidence the style probe gave to the element the candidate
\* was made from.
C31_CssConfidenceCounts ==
    analyses >= 1 =>
        \A i \in 1..Len(new_messages) :
            new_messages[i].detection_method = "css" =>
                \E e \in StyleElements :
                    /\ Get(e, "selector", "") = new_messages[i].selector
                    /\ Get(e, "confidence", 0) = Get(new_messages[i], "confidence", 0)

\* the items of the detected result of a probe in the pass (a pass holds at
\* most one result of each probe); <<>> when the probe did not run or
\* detected nothing
DetectedItems(method) ==
    LET found == {i \in 1..Len(results) :
                    /\ results[i].method = method
                    /\ Get(results[i], "detected", FALSE) = TRUE}
    IN  IF found = {} THEN <<>>
        ELSE LET r == results[CHOOSE i \in found : TRUE]
             IN  IF method = "dom" THEN r.messages
                 ELSE IF method = "visual" THEN r.changes
                 ELSE IF method = "css" THEN r.elements
                 ELSE <<>>

\* the candidates of one detection method, in their order in the pass
ByMethod(method) == SelectSeq(candidates, LAMBDA c : c.detection_method = method)

\* the elements of the style probe whose description says unread or new
WithUnreadOrNew ==
    SelectSeq(DetectedItems("css"),
              LAMBDA e : \/ Contains(Get(e, "description", ""), Unread)
                         \/ Contains(Get(e, "description", ""), New))

\* C32: only results flagged detected contribute candidates; every changed
\* region becomes a visual candidate with a synthetic selector, every
\* structural hit a dom candidate, a style hit a css candidate only when its
\* description says unread or new, and the scroll result contributes none.
C32_Normalization ==
    analyses >= 1 =>
        /\ \A i \in 1..Len(candidates) :
              candidates[i].detection_method \in {"visual", "dom", "css"}
        /\ Len(ByMethod("visual")) = Len(DetectedItems("visual"))
        /\ \A j \in 1..Len(ByMethod("visual")) :
              ByMethod("visual")[j].selector
                  = "visual_change_" \o ToString(DetectedItems("visual")[j].index)
        /\ Len(ByMethod("dom")) = Len(DetectedItems("dom"))
        /\ \A j \in 1..Len(ByMethod("dom")) :
              /\ ByMethod("dom")[j].selector = DetectedItems("dom")[j].selector
              /\ ByMethod("dom")[j].text = DetectedItems("dom")[j].text
        /\ Len(ByMethod("css")) = Len(WithUnreadOrNew)
        /\ \A j \in 1..Len(ByMethod("css")) :
              ByMethod("css")[j].selector = WithUnreadOrNew[j].selector

\* C32 witness: a full pass with a scroll result whose three probes all
\* contributed candidates and whose style probe reported an element that was
\* discarded.
C32_Witness ==
    /\ analyses >= 1
    /\ \E i \in 1..Len(results) : results[i].method = "scroll"
    /\ ByMethod("visual") # <<>>
    /\ ByMethod("dom") # <<>>
    /\ ByMethod("css") # <<>>
    /\ Len(WithUnreadOrNew) < Len(DetectedItems("css"))

\* candidate i of the pass is in the fused list (of equal candidates the
\* first is the one that can be kept)
KeptAt(i) ==
    /\ candidates[i] \in Fused
    /\ \A k \in 1..(i - 1) : candidates[k] # candidates[i]

\* candidates i and j of the pass have a counted key in common
ShareKey(i, j) == CountedKeys(candidates[i]) \cap CountedKeys(candidates[j]) # {}

\* C36: the keys of a dropped candidate are not recorded: a candidate whose
\* keys match only keys of earlier candidates that were themselves dropped
\* survives the de-duplication.
C36_DroppedKeysForgotten ==
    analyses >= 1 =>
        \A i \in 1..Len(candidates) :
            (\A j \in 1..(i - 1) : ShareKey(i, j) => ~KeptAt(j)) => KeptAt(i)

\* C36 witness: a candidate survived although an earlier candidate, which
\* was dropped, has a key in common with it.
C36_Witness ==
    /\ analyses >= 1
    /\ \E i \in 1..Len(candidates) :
          /\ KeptAt(i)
          /\ \E j \in 1..(i - 1) : ShareKey(i, j) /\ ~KeptAt(j)

\* candidates i and j have the same selector or the same first 50
\* characters of text
SameSelectorOrText(i, j) ==
    \/ Get(candidates[i], "selector", "") = Get(candidates[j], "selector", "")
    \/ Prefix(Get(candidates[i], "text", ""), TextPrefixLen)
          = Prefix(Get(candidates[j], "text", ""), TextPrefixLen)

\* C37: a candidate is dropped by the de-duplication only if an earlier
\* surviving candidate of the pass has the same selector or the same first
\* 50 characters of text: the keys of the three key spaces never collide.
C37_DroppedOnlyForSameSelectorOrText ==
    analyses >= 1 =>
        \A i \in 1..Len(candidates) :
            ~KeptAt(i) =>
                \E j \in 1..(i - 1) : KeptAt(j) /\ SameSelectorOrText(i, j)

\* the places of the visual candidates in the fused list
VisualInOutput == {i \in 1..Len(new_messages) : new_messages[i].detection_method = "visual"}

\* C38: the fused list of a pass holds at most one visual candidate,
\* however many changed regions the pixel-diff probe reported.
C38_AtMostOneVisual == analyses >= 1 => Cardinality(VisualInOutput) <= 1

\* C38 witness: the probe reported two changed regions, both became
\* candidates, and one of them is in the fused list.
C38_Witness ==
    /\ analyses >= 1
    /\ Len(DetectedItems("visual")) = 2
    /\ Len(ByMethod("visual")) = 2
    /\ Cardinality(VisualInOutput) = 1


\* ======================================================================
\* The probes (visual_detect, dom_detect, css_detect) of one pass
\* ======================================================================

MinArea == 100
FullArea == 10000

\* a confidence given in tenths
Tenths(n) == (n * ConfScale) \div 10

\* Math.min(1.0, Math.max(0.1, confidence))
Clamp(c) == Min(ConfScale, Max(Tenths(1), c))

\* the stable sort by descending confidence of both page scripts
InsertByConfidence(sorted, item) ==
    LET ahead == {k \in 1..Len(sorted) : sorted[k].confidence >= item.confidence}
        n == IF ahead = {} THEN 0 ELSE CHOOSE k \in ahead : \A h \in ahead : h <= k
    IN  SubSeq(sorted, 1, n) \o <<item>> \o SubSeq(sorted, n + 1, Len(sorted))

RECURSIVE SortByConfidence(_, _, _)
SortByConfidence(items, i, sorted) ==
    IF i > Len(items) THEN sorted
    ELSE SortByConfidence(items, i + 1, InsertByConfidence(sorted, items[i]))

\* the items whose key (keys[i] for items[i]) no earlier item has, in order
RECURSIVE UniqueByKey(_, _, _, _, _)
UniqueByKey(items, keys, i, seen, kept) ==
    IF i > Len(items) THEN kept
    ELSE IF keys[i] \in seen
         THEN UniqueByKey(items, keys, i + 1, seen, kept)
         ELSE UniqueByKey(items, keys, i + 1, seen \cup {keys[i]},
                          Append(kept, items[i]))

\* ---- _analyze_diff: contours given by their areas
RECURSIVE AnalyzeDiff(_, _)
AnalyzeDiff(areas, i) ==
    IF i > Len(areas) THEN <<>>
    ELSE (IF areas[i] > MinArea
          THEN <<[type |-> "message", index |-> i,
                  confidence |-> Min(ConfScale, (areas[i] * ConfScale) \div FullArea)]>>
          ELSE <<>>) \o AnalyzeDiff(areas, i + 1)

ContourAreas == {100, 101, 20000}

\* random.uniform(0.8, 0.99) and random.uniform(0.7, 0.95), sampled at the
\* ends of their ranges
SimVisualConfidences == {8000, 9900}
SimCssConfidences == {7000, 9500}

SimChanges(confs) ==
    [i \in 1..Len(confs) |-> [type |-> "message", index |-> i, confidence |-> confs[i]]]

\* ---- the page script of dom_detect
DomSelectors ==
    <<".chat-item.unread", "[class*=\"red-dot\"]", "[class*=\"unread\"]",
      "[class*=\"new\"]", "#chat-list .item">>

\* visible elements in the viewport that a selector (by its place in
\* DomSelectors) matches, with their text and class name
DomHits ==
    { [s |-> 1, text |-> "Hello", className |-> "chat-item unread"],
      [s |-> 2, text |-> "", className |-> "red-dot"],
      [s |-> 3, text |-> "Hello", className |-> "chat-item unread"],
      [s |-> 4, text |-> "xinxiaoxi 1", className |-> "new-message"],
      [s |-> 5, text |-> "Hello", className |-> "item"],
      [s |-> 5, text |-> "weidu 2", className |-> "item"] }

DomConfidence(selector, text, className) ==
    Clamp(Tenths(5)
          + (IF Contains(selector, "unread") THEN Tenths(3) ELSE 0)
          + (IF Contains(selector, "red") THEN Tenths(2) ELSE 0)
          + (IF Contains(selector, "new") THEN Tenths(2) ELSE 0)
          + (IF Contains(text, "weidu") \/ Contains(text, "xinxiaoxi")
             THEN Tenths(3) ELSE 0)
          + (IF Contains(className, "unread") \/ Contains(className, "new")
             THEN Tenths(2) ELSE 0))

DomScript(hits) ==
    LET pushed == [i \in 1..Len(hits) |->
                     [index |-> i,
                      selector |-> DomSelectors[hits[i].s],
                      text |-> hits[i].text,
                      className |-> hits[i].className,
                      confidence |-> DomConfidence(DomSelectors[hits[i].s],
                                                   hits[i].text, hits[i].className)]]
    IN  SortByConfidence(
            UniqueByKey(pushed, [i \in DOMAIN pushed |-> DomScriptKey(pushed[i])],
                        1, {}, <<>>),
            1, <<>>)

\* the selectors are tried in the order of the list
HitLists ==
    { h \in SeqsUpTo(DomHits, MaxHits) :
        \A i \in 1..(Len(h) - 1) : h[i].s <= h[i + 1].s }

\* ---- the page script of css_detect
\* descriptions as ASCII stand-ins: weidubiaoji = unread mark, xiaoxiyuansu =
\* message element, tongzhiyuansu = notification element, shuliangbiaoji =
\* count mark, gaoliangyuansu = highlighted element, huoyueyuansu = active
\* element, zuixinyuansu = latest element, weiduyuansu = unread element
CssPatterns ==
    << [alts |-> {"unread", "new", "red", "dot"}, description |-> "weidubiaoji", weight |-> 8],
       [alts |-> {"message", "chat"}, description |-> "xiaoxiyuansu", weight |-> 6],
       [alts |-> {"notification", "alert"}, description |-> "tongzhiyuansu", weight |-> 7],
       [alts |-> {"badge", "count"}, description |-> "shuliangbiaoji", weight |-> 7],
       [alts |-> {"highlight", "focus"}, description |-> "gaoliangyuansu", weight |-> 5],
       [alts |-> {"active", "current"}, description |-> "huoyueyuansu", weight |-> 4],
       [alts |-> {"new", "latest"}, description |-> "zuixinyuansu", weight |-> 7],
       [alts |-> {"unread", "unseen"}, description |-> "weiduyuansu", weight |-> 9] >>

\* visible elements in the viewport: class name (single spaces, trimmed),
\* text, and whether rect.top < 300
PageElements ==
    { [className |-> "red-dot", text |-> "", top |-> TRUE],
      [className |-> "chat-item unread", text |-> "xinxiaoxi 1", top |-> TRUE],
      [className |-> "active", text |-> "Hello", top |-> FALSE] }

\* '.' + className.split(' ').filter(cls => cls).join('.')
RECURSIVE Dotted(_, _)
Dotted(s, i) ==
    IF i > Len(s) THEN ""
    ELSE (IF SubSeq(s, i, i) = " " THEN "." ELSE SubSeq(s, i, i)) \o Dotted(s, i + 1)

ClassSelector(className) == "." \o Dotted(className, 1)

CssConfidence(weight, text, top) ==
    Clamp(Tenths(weight)
          + (IF Contains(text, "weidu") \/ Contains(text, "xinxiaoxi")
                \/ Contains(text, "xiaoxi")
             THEN Tenths(2) ELSE 0)
          + (IF top THEN Tenths(1) ELSE 0))

CssScriptKey(e) ==
    e.selector \o "|" \o e.description \o "|" \o Prefix(e.text, 30)

\* what one element pushes, pattern by pattern
RECURSIVE MatchPatterns(_, _)
MatchPatterns(element, k) ==
    IF k > Len(CssPatterns) THEN <<>>
    ELSE (IF \E a \in CssPatterns[k].alts : Contains(element.className, a)
          THEN <<[selector |-> ClassSelector(element.className),
                  status |-> "active",
                  description |-> CssPatterns[k].description,
                  text |-> element.text,
                  className |-> element.className,
                  confidence |-> CssConfidence(CssPatterns[k].weight,
                                               element.text, element.top)]>>
          ELSE <<>>) \o MatchPatterns(element, k + 1)

RECURSIVE MatchElements(_, _)
MatchElements(elements, i) ==
    IF i > Len(elements) THEN <<>>
    ELSE MatchPatterns(elements[i], 1) \o MatchElements(elements, i + 1)

CssScript(elements) ==
    LET pushed == MatchElements(elements, 1)
        unique == UniqueByKey(pushed, [i \in DOMAIN pushed |-> CssScriptKey(pushed[i])],
                              1, {}, <<>>)
    IN  SelectSeq(SortByConfidence(unique, 1, <<>>),
                  LAMBDA e : e.confidence > Tenths(5))

\* ---- the probes, in the order of a pass: visual (full pass only), dom, css
InitProbe ==
    /\ browser \in BOOLEAN
    /\ last_screenshot \in {FALSE, browser}
    /\ last_full_detection = [defined |-> FALSE, time |-> 0]
    /\ last_pass = NoPass
    /\ detection = NoDetection
    /\ IdleFusion

probeRest ==
    <<now, orchVars, recVars, browser, last_full_detection, last_pass, detection,
      new_messages, previous_messages, candidates, analyses, appVars>>

\* visual_detect: without a capture the probe simulates; with one, the first
\* capture is the baseline and a later one is compared with the previous
VisualDetect ==
    /\ results = <<>>
    /\ \E capture_ok \in BOOLEAN :
          LET outcome == VisualOutcome(browser /\ capture_ok)
          IN  /\ \/ /\ outcome = "simulated"
                    /\ \E confs \in SeqsUpTo(SimVisualConfidences, 3) :
                          results' = <<VisualResult(SimChanges(confs))>>
                 \/ /\ outcome = "compared"
                    /\ \E areas \in SeqsUpTo(ContourAreas, MaxHits) :
                          results' = <<VisualResult(AnalyzeDiff(areas, 1))>>
                 \/ /\ outcome = "baseline"
                    /\ results' = <<VisualResult(<<>>)>>
              /\ last_screenshot' = (last_screenshot \/ (browser /\ capture_ok))
    /\ UNCHANGED probeRest

\* dom_detect; `delivered`: the page answered by the time the probe reads the
\* result
DomDetect ==
    /\ \/ results = <<>>
       \/ Len(results) = 1 /\ results[1].method = "visual"
    /\ \/ /\ browser
          /\ \E hits \in HitLists, delivered \in BOOLEAN :
                results' = Append(results,
                    DomResult(IF delivered THEN DomScript(hits) ELSE <<>>))
       \/ /\ ~browser
          /\ \E message_count \in 0..2 :
                results' = Append(results,
                    DomResult([i \in 1..message_count |-> SimDomMessage(i)]))
    /\ UNCHANGED <<last_screenshot, probeRest>>

\* css_detect
CssDetect ==
    /\ results # <<>>
    /\ results[Len(results)].method = "dom"
    /\ \/ /\ browser
          /\ \E elements \in SeqsUpTo(PageElements, MaxHits), delivered \in BOOLEAN :
                results' = Append(results,
                    CssResult(IF delivered THEN CssScript(elements) ELSE <<>>))
       \/ /\ ~browser
          /\ \E confs \in SeqsUpTo(SimCssConfidences, 2) :
                results' = Append(results,
                    CssResult([i \in 1..Len(confs) |->
                                 [selector |-> ".message-item:nth-child("
                                                  \o ToString(i) \o ")",
                                  status |-> "unread",
                                  confidence |-> confs[i]]]))
    /\ UNCHANGED <<last_screenshot, probeRest>>

NextProbe == VisualDetect \/ DomDetect \/ CssDetect

StartProbe == now = 0 /\ IdleOrch /\ IdleRecovery /\ InitProbe /\ IdleApp

SpecProbe == StartProbe /\ [][NextProbe]_vars

\* ----------------------------------------------------------------------
\* Claims about the probes (SpecProbe)
\* ----------------------------------------------------------------------

\* C9: every candidate produced by every probe (pixel-diff regions,
\* structural-marker hits, style-heuristic hits), in real or simulated mode,
\* carries a confidence value within [0.0, 1.0].
C9_ConfidenceInUnitRange ==
    \A i \in DOMAIN results :
        \A j \in DOMAIN Items(results[i]) :
            /\ "confidence" \in DOMAIN Items(results[i])[j]
            /\ Items(results[i])[j].confidence \in 0..ConfScale


\* ======================================================================
\* DouyinAutoReplyApp: the window, its detection threads, the Learning
\* Workflow, the correction dialog and the settings store
\* ======================================================================

\* ---- descriptors (element_info) and stored texts
\* Each of the four attributes _validate_saved_element asks for is missing
\* from the dict, present but empty, or present with a value.
FieldStates == {"missing", "empty", "set"}
RequiredFields == {"tagName", "className", "xpath", "css"}

Descriptor(tag, class, xpath, css) ==
    [tagName |-> tag, className |-> class, xpath |-> xpath, css |-> css]

BlankDescriptor == Descriptor("missing", "missing", "missing", "missing")
FullDescriptor == Descriptor("set", "set", "set", "set")

\* the dict {}
EmptyDict == [k \in {} |-> BlankDescriptor]

\* steps = ["私信按钮", "新消息提示", "输入框", "发送按钮"]
RoleSeq == <<"private_message_button", "new_message_hint", "input_box", "send_button">>

\* A stored string: the JSON text of a descriptor, or a plain string.
Json(d) == [kind |-> "json", json |-> d, plain |-> ""]
Plain(str) == [kind |-> "plain", json |-> BlankDescriptor, plain |-> str]
EmptyText == Plain("")

\* json.dumps(element_info) and json.loads(element_info_str)
Dumps(d) == Json(d)
Loads(text) == IF text.kind = "json" THEN [ok |-> TRUE, value |-> text.json]
               ELSE [ok |-> FALSE, value |-> BlankDescriptor]

\* key = f'learning_{element_name}'
LearningKey(role) == "learning_" \o role

\* two of the eleven keys _load_configs reads, with their defaults
FixedKeys == {"check_interval", "reply_frequency_limit"}
DefaultConfigs ==
    [k \in FixedKeys |-> IF k = "check_interval" THEN Plain("30") ELSE Plain("5")]

\* DatabaseManager._init_default_configs: INSERT OR IGNORE
InitDefaultConfigs(db) ==
    [k \in DOMAIN db \cup FixedKeys |-> IF k \in DOMAIN db THEN db[k] ELSE DefaultConfigs[k]]

\* ConfigManager._load_configs: the cache holds the fixed keys and no other
LoadConfigs(db) == [k \in FixedKeys |-> Get(db, k, DefaultConfigs[k])]

\* ConfigManager.get: the cache alone answers
ConfigGet(st, key, default) == Get(st.cache, key, default)

\* DatabaseManager.set_config: INSERT OR REPLACE and True, or, when sqlite
\* raises (db_ok false), nothing written and False
SetConfig(db, key, value, db_ok) ==
    IF db_ok THEN [db |-> SetKey(db, key, value), success |-> TRUE]
    ELSE [db |-> db, success |-> FALSE]

\* the class ConfigManager defines _sync_to_widget and no _sync_to_widgets
SyncToWidgetsDefined == FALSE

\* no call of ConfigManager.set yet
NoSet == [called |-> FALSE, written |-> FALSE, returned |-> FALSE]

\* ConfigManager.set: the cache is written, then the table; then
\* self._sync_to_widgets(key, value) is called, which raises AttributeError
\* for the missing method, and the bare except answers False.  last_set is
\* history: whether the table took the value, and what set returned.
ConfigSetCall(st, key, value, db_ok) ==
    LET w == SetConfig(st.db, key, value, db_ok)
    IN  [st EXCEPT !.cache = SetKey(@, key, value),
                   !.db = w.db,
                   !.last_set = [called |-> TRUE, written |-> w.success,
                                 returned |-> IF SyncToWidgetsDefined
                                              THEN w.success ELSE FALSE]]

\* ConfigManager.set on a table that takes the write (the return value is
\* not looked at by _save_learning_results)
ConfigSet(st, key, value) == ConfigSetCall(st, key, value, TRUE)

\* _validate_saved_element
ValidateSavedElement(d) ==
    /\ \A f \in RequiredFields : d[f] # "missing"
    /\ ~(d.css # "set" /\ d.xpath # "set")
    /\ d.tagName = "set"

\* _test_element_interaction has a selector to test: css, else xpath
HasSelector(d) == d.css = "set" \/ d.xpath = "set"

\* what the thread finds for a role (DescriptorStates)
DescriptorState(d) == IF d.xpath = "set" THEN "xpath" ELSE "no_xpath"

\* DetectionThread._load_learning_elements
LoadLearningElements(st) ==
    [r \in Roles |->
        LET text == ConfigGet(st, LearningKey(r), EmptyText)
        IN  IF text = EmptyText \/ ~Loads(text).ok THEN "absent"
            ELSE DescriptorState(Loads(text).value)]

\* "for element_name, element_info in self.learning_elements.items():
\*      self.config_manager.set(key, json.dumps(element_info))"
RECURSIVE SaveElements(_, _, _)
SaveElements(st, elements, k) ==
    IF k > Len(RoleSeq) THEN st
    ELSE SaveElements(IF RoleSeq[k] \in DOMAIN elements
                      THEN ConfigSet(st, LearningKey(RoleSeq[k]), Dumps(elements[RoleSeq[k]]))
                      ELSE st,
                      elements, k + 1)

\* the writes of _save_learning_results
SaveResults(st, elements) == SaveElements(st, elements, 1)

\* ---- the window
\* DouyinAutoReplyApp.__init__; manager: the BrowserManager held ("none", or
\* one that has the browser control, or one created after it and without it);
\* waiting: the window's thread is inside detection_thread.wait(); dialog: an
\* ErrorCorrectionDialog is open; errors: error_occurred signals queued;
\* halted and cleared are history: "pause" was chosen in a correction dialog
\* and no button of the window was used since; "reset" was chosen in a
\* correction dialog and the Learning Workflow was not entered since.
NewApp ==
    [is_monitoring |-> FALSE, is_paused |-> FALSE, is_learning |-> FALSE,
     learning_step |-> 0, learning_elements |-> EmptyDict,
     browser_view |-> FALSE, manager |-> "none", detector |-> FALSE,
     detection_thread |-> 0, waiting |-> FALSE, dialog |-> FALSE, errors |-> 0,
     halted |-> FALSE, cleared |-> FALSE]

\* loading: a page load is in progress; ui_script: the page script the
\* window's thread has in flight; offers: the element_info values the page
\* can hand to _on_element_selected; verdict is history: how the last pick of
\* the Learning Workflow ended ("rejected" by the operator, test "failed" or
\* "passed"), "none" before any pick and while a pick is being tested
NewPage(offers) ==
    [loading |-> FALSE, ui_script |-> "none", offers |-> offers, verdict |-> "none"]

\* DetectionThread.__init__
NewThread(st) ==
    [pc |-> "start", running |-> FALSE, paused |-> FALSE, step |-> "none",
     elements |-> LoadLearningElements(st)]

\* ConfigManager.__init__ on a database file
NewStore(db, session) ==
    [cache |-> LoadConfigs(InitDefaultConfigs(db)), db |-> InitDefaultConfigs(db),
     session |-> session, last_set |-> NoSet]

\* the window's thread is not inside a blocking call
UiRuns == ~app.waiting /\ page.ui_script \notin {"test", "detect"}
\* ... and no modal dialog keeps the buttons of the window from the operator
ButtonsUsable == UiRuns /\ ~app.dialog

appRest == <<now, orchVars, cadVars, fusVars>>

\* _on_start_monitoring
OnStartMonitoring ==
    /\ ButtonsUsable
    /\ ~app.is_monitoring
    /\ app' = [app EXCEPT !.is_monitoring = TRUE,
                          !.browser_view = TRUE,
                          !.manager = IF app.browser_view THEN "without_browser"
                                      ELSE "with_browser",
                          !.halted = FALSE]
    /\ page' = [page EXCEPT !.loading = IF app.browser_view THEN @ ELSE TRUE]
    /\ UNCHANGED <<threads, store, recVars, appRest>>

\* BrowserManager._on_load_finished(ok) -> _on_browser_ready: a detector and
\* a DetectionThread are made and the thread is started, whatever thread is
\* already there.  The slot belongs to the manager that made the browser
\* control; once the window has let go of that manager nothing is called.
OnLoadFinished(ok) ==
    /\ UiRuns
    /\ page.loading
    /\ page' = [page EXCEPT !.loading = FALSE]
    /\ IF ok /\ app.manager = "with_browser"
       THEN /\ Len(threads) < MaxThreads
            /\ threads' = Append(threads, NewThread(store))
            /\ app' = [app EXCEPT !.detector = TRUE,
                                  !.detection_thread = Len(threads) + 1]
       ELSE UNCHANGED <<threads, app>>
    /\ UNCHANGED <<store, recVars, appRest>>

\* _on_stop_monitoring up to detection_thread.wait()
OnStopMonitoring ==
    /\ ButtonsUsable
    /\ app.is_monitoring
    /\ IF app.detection_thread # 0
       THEN /\ threads' = [threads EXCEPT ![app.detection_thread].running = FALSE]
            /\ app' = [app EXCEPT !.waiting = TRUE, !.halted = FALSE]
            /\ UNCHANGED page
       ELSE /\ app' = [app EXCEPT !.manager = "none", !.detector = FALSE,
                                  !.is_monitoring = FALSE, !.is_paused = FALSE,
                                  !.halted = FALSE]
            /\ page' = [page EXCEPT !.loading =
                           IF app.manager = "with_browser" THEN FALSE ELSE @]
            /\ UNCHANGED threads
    /\ UNCHANGED <<store, recVars, appRest>>

\* ... and from the return of wait() on
StopFinished ==
    /\ app.waiting
    /\ threads[app.detection_thread].pc = "done"
    /\ app' = [app EXCEPT !.waiting = FALSE, !.detection_thread = 0,
                          !.manager = "none", !.detector = FALSE,
                          !.is_monitoring = FALSE, !.is_paused = FALSE]
    /\ page' = [page EXCEPT !.loading =
                   IF app.manager = "with_browser" THEN FALSE ELSE @]
    /\ UNCHANGED <<threads, store, recVars, appRest>>

\* _on_pause_monitoring
OnPauseMonitoring ==
    /\ ButtonsUsable
    /\ app.is_monitoring
    /\ app' = [app EXCEPT !.is_paused = ~@, !.halted = FALSE]
    /\ threads' = IF app.detection_thread # 0
                  THEN [threads EXCEPT ![app.detection_thread].paused = ~app.is_paused]
                  ELSE threads
    /\ UNCHANGED <<page, store, recVars, appRest>>

\* ---- the Learning Workflow
\* _start_learning_process on window fields a, page pg and store st: below
\* four learned steps the learning script of the current step is injected;
\* at four the workflow ends, is_learning is cleared and
\* _save_learning_results runs: every descriptor is written, then validated,
\* and the operator may answer the "incomplete" or "validation failed"
\* question with a restart (relearn).
StartLearningProcess(a, pg, st, relearn) ==
    IF a.learning_step < Len(RoleSeq)
    THEN IF ~a.browser_view
         THEN [app |-> [a EXCEPT !.is_learning = FALSE], page |-> pg, store |-> st]
         ELSE [app |-> a, page |-> [pg EXCEPT !.ui_script = "learning"], store |-> st]
    ELSE LET elements == a.learning_elements
             all_valid == \A r \in DOMAIN elements : ValidateSavedElement(elements[r])
             missing == Roles \ DOMAIN elements
             again == relearn /\ (missing # {} \/ ~all_valid)
         IN  [app |-> IF again
                      THEN [a EXCEPT !.is_learning = FALSE, !.learning_step = 0,
                                     !.learning_elements = EmptyDict]
                      ELSE [a EXCEPT !.is_learning = FALSE],
              page |-> [pg EXCEPT !.ui_script = IF again THEN "learning" ELSE "none"],
              store |-> SaveResults(st, elements)]

\* _on_learning_mode on window fields a
LearningMode(a, pg, st) ==
    IF ~a.browser_view
    THEN [app |-> a, page |-> pg, store |-> st]
    ELSE StartLearningProcess([a EXCEPT !.is_learning = TRUE, !.learning_step = 0,
                                        !.learning_elements = EmptyDict,
                                        !.cleared = FALSE],
                              [pg EXCEPT !.verdict = "none"], st, FALSE)

\* the learning button
OnLearningMode ==
    /\ ButtonsUsable
    /\ app.browser_view
    /\ LET after == LearningMode(app, page, store)
       IN  /\ app' = after.app
           /\ page' = after.page
           /\ store' = after.store
    /\ UNCHANGED <<threads, recVars, appRest>>

\* what _on_element_selected can be handed and be answered: no element, or
\* an element the operator rejects or confirms in the confirmation box
Answers == {"nothing", "rejected", "confirmed"}

\* _on_element_selected(element_info): the answer to the learning script.
\* Nothing picked: logged, nothing else.  A pick the operator rejects injects
\* the script of the same step again and changes nothing else.  A pick the
\* operator confirms is put into learning_elements and tested; without any
\* selector the test fails at once and the script of the same step is
\* injected again.
OnElementSelected(answer, element_info) ==
    /\ UiRuns
    /\ page.ui_script = "learning"
    /\ app.learning_step < Len(RoleSeq)
    /\ IF answer = "nothing"
       THEN /\ page' = [page EXCEPT !.ui_script = "none"]
            /\ UNCHANGED app
       ELSE IF answer = "rejected"
       THEN /\ page' = StartLearningProcess(
                           app, [page EXCEPT !.verdict = "rejected"], store, FALSE).page
            /\ UNCHANGED app
       ELSE /\ app' = [app EXCEPT !.learning_elements =
                          SetKey(@, RoleSeq[app.learning_step + 1], element_info)]
            /\ page' = IF HasSelector(element_info)
                       THEN [page EXCEPT !.ui_script = "test", !.verdict = "none"]
                       ELSE [page EXCEPT !.ui_script = "learning", !.verdict = "failed"]
    /\ UNCHANGED <<threads, store, recVars, appRest>>

\* OnTestDone going to the next step whatever the result of the test
OnTestDoneAlwaysAdvances(result, relearn) ==
    /\ page.ui_script = "test"
    /\ LET after == StartLearningProcess(
                        [app EXCEPT !.learning_step = @ + 1],
                        [page EXCEPT !.verdict = IF result THEN "passed" ELSE "failed"],
                        store, relearn)
       IN  /\ app' = after.app
           /\ page' = after.page
           /\ store' = after.store
    /\ UNCHANGED <<threads, recVars, appRest>>

\* _test_element_interaction from the answer of its script on, and what
\* _on_element_selected does with the verdict
OnTestDone(result, relearn) ==
    /\ page.ui_script = "test"
    /\ LET after == StartLearningProcess(
                        IF result THEN [app EXCEPT !.learning_step = @ + 1] ELSE app,
                        [page EXCEPT !.verdict = IF result THEN "passed" ELSE "failed"],
                        store, relearn)
       IN  /\ app' = after.app
           /\ page' = after.page
           /\ store' = after.store
    /\ UNCHANGED <<threads, recVars, appRest>>

\* ---- the detection threads of the window
\* Each thread runs DetectionThread.run; here a cycle is the sequence of its
\* page scripts (entry-point click, detection, consume-and-reply, reset), a
\* script being in flight between its issue and its answer, and the wait
\* between two cycles is part of the turn of the loop that follows it.
Threads == 1..Len(threads)

\* self.error_occurred.emit("private_message", ...): queued for the window
EmitToWindow == app' = [app EXCEPT !.errors = @ + 1]

\* the script a step comes to with the descriptors the thread holds: without
\* a hint descriptor there is no detection, without input box or send button
\* no reply, and the flow goes on to the reset
ResolvedStep(elements, step) ==
    IF step = "detect" /\ elements["new_message_hint"] = "absent" THEN "return"
    ELSE IF step = "reply" /\ (elements["input_box"] = "absent"
                               \/ elements["send_button"] = "absent") THEN "return"
    ELSE step

\* the thread with the script of a step issued
Issued(th, step) == [th EXCEPT !.pc = "flight", !.step = ResolvedStep(th.elements, step)]

\* QThread.start() -> run(): self.running = True
ThreadStart(i) ==
    /\ threads[i].pc = "start"
    /\ threads' = [threads EXCEPT ![i].pc = "loop", ![i].running = TRUE]
    /\ UNCHANGED <<app, page, store, recVars, appRest>>

\* `while self.running:` / `if not self.paused:` (a paused turn sleeps and
\* changes nothing) and the first step of the cycle: the click script is
\* issued, or, without an xpath for the button, the error is reported and
\* the cycle is over
ThreadLoopHead(i) ==
    LET th == threads[i] IN
    /\ th.pc = "loop"
    /\ IF ~th.running
       THEN /\ threads' = [threads EXCEPT ![i].pc = "done"]
            /\ UNCHANGED app
       ELSE /\ ~th.paused
            /\ IF th.elements["private_message_button"] = "xpath"
               THEN /\ threads' = [threads EXCEPT ![i] = Issued(th, "click_private_message")]
                    /\ UNCHANGED app
               ELSE /\ app.errors < MaxQueued
                    /\ EmitToWindow
                    /\ UNCHANGED threads
    /\ UNCHANGED <<page, store, recVars, appRest>>

\* the answer of the script in flight, and where the flow goes with it; the
\* reset script that ran has started a navigation of the page
ThreadComplete(i, result) ==
    LET th == threads[i] IN
    /\ th.pc = "flight"
    /\ IF th.step = "click_private_message"
       THEN IF result
            THEN /\ threads' = [threads EXCEPT ![i] = Issued(th, "detect")]
                 /\ UNCHANGED <<app, page>>
            ELSE /\ app.errors < MaxQueued
                 /\ EmitToWindow
                 /\ threads' = [threads EXCEPT ![i].pc = "loop", ![i].step = "none"]
                 /\ UNCHANGED page
       ELSE IF th.step = "detect"
       THEN /\ threads' = [threads EXCEPT
                              ![i] = Issued(th, IF result THEN "reply" ELSE "return")]
            /\ UNCHANGED <<app, page>>
       ELSE IF th.step = "reply"
       THEN /\ threads' = [threads EXCEPT ![i] = Issued(th, "return")]
            /\ UNCHANGED <<app, page>>
       ELSE /\ threads' = [threads EXCEPT ![i].pc = "loop", ![i].step = "none"]
            /\ page' = [page EXCEPT !.loading = @ \/ result]
            /\ UNCHANGED app
    /\ UNCHANGED <<store, recVars, appRest>>

\* ---- errors and corrections
\* _on_error_occurred for a queued "private_message" report: suppressed, or
\* recorded and answered with the modal ErrorCorrectionDialog
OnQueuedError ==
    LET key == ErrorKey("private_message", ClickFailedMessage)
        entry == error_history[key]
    IN  /\ UiRuns
        /\ app.errors > 0
        /\ IF Suppressed(entry, now)
           THEN /\ app' = [app EXCEPT !.errors = @ - 1]
                /\ UNCHANGED <<error_history, prompts>>
                /\ last_report' = [key |-> key, time |-> now, prompted |-> FALSE,
                                   gap |-> -1, before |-> entry]
           ELSE /\ app' = [app EXCEPT !.errors = @ - 1, !.dialog = TRUE]
                /\ error_history' =
                       Purge([error_history EXCEPT ![key] = Recorded(entry, now)], now)
                /\ prompts' = [prompts EXCEPT
                                  ![key] = [shown |-> @.shown + 1, last |-> now]]
                /\ last_report' =
                       [key |-> key, time |-> now, prompted |-> TRUE,
                        gap |-> IF prompts[key].shown = 0 THEN -1
                                ELSE now - prompts[key].last,
                        before |-> entry]
        /\ UNCHANGED <<threads, page, store, appRest>>

\* the seven methods of the dialog, and its two other buttons
CorrectionMethods ==
    {"auto_detect", "relearn", "skip", "pause", "refresh", "reconnect", "reset",
     "ignore", "config"}

\* ErrorCorrectionDialog._on_correct / _on_ignore / _on_config ->
\* _on_correction_completed(error_type, correction_method)
OnCorrectionCompleted(method) ==
    /\ app.dialog
    /\ UiRuns
    /\ LET closed == [app EXCEPT !.dialog = FALSE,
                                 !.halted = (method = "pause"),
                                 !.cleared = (method = "reset")]
       IN  IF method = "auto_detect"
           THEN /\ app' = closed
                /\ page' = [page EXCEPT !.ui_script =
                               IF app.detector THEN "detect" ELSE @]
                /\ UNCHANGED store
           ELSE IF method = "relearn"
           THEN LET after == LearningMode(closed, page, store)
                IN  /\ app' = after.app
                    /\ page' = after.page
                    /\ store' = after.store
           ELSE IF method = "refresh"
           THEN /\ app' = closed
                /\ page' = [page EXCEPT !.loading = @ \/ app.browser_view]
                /\ UNCHANGED store
           ELSE /\ app' = closed
                /\ UNCHANGED <<page, store>>
    /\ UNCHANGED <<threads, recVars, appRest>>

\* detector.detect_new_messages() of "auto_detect" returns
OnDetectDone ==
    /\ page.ui_script = "detect"
    /\ page' = [page EXCEPT !.ui_script = "none"]
    /\ UNCHANGED <<app, threads, store, recVars, appRest>>

\* the program is closed and started again on the same database file
Restart ==
    /\ store.session < MaxSessions
    /\ app' = NewApp
    /\ threads' = <<>>
    /\ page' = NewPage(page.offers)
    /\ store' = NewStore(store.db, store.session + 1)
    /\ UNCHANGED <<recVars, appRest>>

\* ---- the window with its threads, errors and corrections
\* a database file without any row
EmptyDb == [k \in {} |-> EmptyText]

\* the descriptors the page of SpecApp hands out
AppOffers == {FullDescriptor}

InitApp ==
    /\ app = NewApp
    /\ threads = <<>>
    /\ page = NewPage(AppOffers)
    /\ store = NewStore(EmptyDb, 1)

StartApp == now = 0 /\ IdleOrch /\ InitRecovery /\ IdleCadence /\ IdleFusion /\ InitApp

NextApp ==
    \/ OnStartMonitoring
    \/ \E ok \in BOOLEAN : OnLoadFinished(ok)
    \/ OnStopMonitoring
    \/ StopFinished
    \/ OnPauseMonitoring
    \/ OnLearningMode
    \/ \E answer \in Answers, element_info \in page.offers :
           OnElementSelected(answer, element_info)
    \/ \E result \in BOOLEAN : OnTestDone(result, FALSE)
    \/ OnQueuedError
    \/ \E method \in CorrectionMethods : OnCorrectionCompleted(method)
    \/ OnDetectDone
    \/ \E i \in Threads : ThreadStart(i)
    \/ \E i \in Threads : ThreadLoopHead(i)
    \/ \E i \in Threads, result \in BOOLEAN : ThreadComplete(i, result)

SpecApp == StartApp /\ [][NextApp]_vars

\* ----------------------------------------------------------------------
\* Claims about the window and its threads (SpecApp)
\* ----------------------------------------------------------------------

\* the Learning Workflow is active: is_learning is set (its script is
\* injected or a pick is being tested)
LearningActive == app.is_learning

\* thread i is inside a cycle it runs unpaused, a page script of it in flight
CycleRuns(i) == threads[i].pc = "flight" /\ threads[i].running /\ ~threads[i].paused

\* C11: the Learning Workflow and the orchestrator never run concurrently:
\* the Learning Workflow is never active while a DetectionThread is running
\* unpaused cycles.
C11_LearningExcludesCycles == ~(LearningActive /\ \E i \in Threads : CycleRuns(i))

\* C12: at most one page-script call is in flight on the shared browser at
\* any time: a script issued by a detection thread never overlaps a script
\* issued on the window's thread by the Learning Workflow or by a recovery
\* action.
C12_OneScriptInFlight ==
    ~(page.ui_script # "none" /\ \E i \in Threads : threads[i].pc = "flight")

\* the threads whose run() has begun and has not returned
RunningThreads == {i \in Threads : threads[i].pc \in {"loop", "flight"}}

\* C13: at any time at most one DetectionThread is running: a finished page
\* load that arrives while a detection thread is running starts no
\* additional thread.
C13_OneThreadRuns == Cardinality(RunningThreads) <= 1

\* C17: after "pause" was chosen in a correction dialog, no detection thread
\* begins a cycle until monitoring is explicitly resumed.
C17_PauseHaltsCycles ==
    [][app.halted =>
          \A i \in Threads : threads[i].pc = "loop" => threads'[i].pc # "flight"]_vars

\* the roles for which a descriptor is held by the window, the store or a
\* thread
LearnedRoles ==
    {r \in Roles :
        \/ r \in DOMAIN app.learning_elements
        \/ LearningKey(r) \in DOMAIN store.cache
        \/ LearningKey(r) \in DOMAIN store.db
        \/ \E i \in Threads : threads[i].elements[r] # "absent"}

\* C18: choosing "reset" in a correction dialog clears every learned
\* descriptor: no role remains learned afterwards.
C18_ResetClearsLearned == app.cleared => LearnedRoles = {}

\* ----------------------------------------------------------------------
\* The Learning Workflow and the settings store over several sessions
\* ----------------------------------------------------------------------

\* the descriptors the page of SpecStore hands out: a complete one and one
\* without the xpath attribute
StoreOffers == {FullDescriptor, Descriptor("set", "set", "missing", "set")}

InitStore ==
    /\ app = NewApp
    /\ threads = <<>>
    /\ page = NewPage(StoreOffers)
    /\ store = NewStore(EmptyDb, 1)

StartStore == now = 0 /\ IdleOrch /\ InitRecovery /\ IdleCadence /\ IdleFusion /\ InitStore

NextStore ==
    \/ OnStartMonitoring
    \/ \E ok \in BOOLEAN : OnLoadFinished(ok)
    \/ OnLearningMode
    \/ \E answer \in Answers, element_info \in page.offers :
           OnElementSelected(answer, element_info)
    \/ \E result \in BOOLEAN, relearn \in BOOLEAN : OnTestDone(result, relearn)
    \/ Restart

SpecStore == StartStore /\ [][NextStore]_vars

\* the descriptor stored in the table under the key of a role
Committed(r) == Loads(store.db[LearningKey(r)]).value

\* C19: a captured descriptor that lacks any of the attributes tagName,
\* className, xpath or css is never written to the settings store under
\* its role's key.
C19_OnlyCompleteCommitted ==
    \A r \in Roles :
        LearningKey(r) \in DOMAIN store.db =>
            \A f \in RequiredFields : Committed(r)[f] # "missing"

\* C20: a descriptor committed under learning_<role> is returned by the
\* get of the settings store for that key, in the session of the commit and
\* in every later one, and is loaded into a newly constructed
\* DetectionThread.
C20_DescriptorsPersist ==
    /\ [](\A r \in Roles :
             LearningKey(r) \in DOMAIN store.db =>
                 ConfigGet(store, LearningKey(r), EmptyText) = store.db[LearningKey(r)])
    /\ [][Len(threads') > Len(threads) =>
             \A r \in Roles :
                 LearningKey(r) \in DOMAIN store.db =>
                     threads'[Len(threads')].elements[r] = DescriptorState(Committed(r))]_vars

\* ----------------------------------------------------------------------
\* The registry of a running thread (SpecApp)
\* ----------------------------------------------------------------------

\* thread i begins a cycle in this step: it issues the entry-point click, or,
\* holding no xpath for the button, reports the error of its first step
BeginsCycle(i) ==
    /\ threads[i].pc = "loop"
    /\ threads[i].running
    /\ ~threads[i].paused
    /\ \/ threads'[i].pc = "flight"
       \/ /\ threads[i].elements["private_message_button"] # "xpath"
          /\ threads' = threads
          /\ app'.errors = app.errors + 1

\* what a thread that reads the settings store now finds for a role
StoredState(r) ==
    LET text == ConfigGet(store, LearningKey(r), EmptyText)
    IN  IF text = EmptyText \/ ~Loads(text).ok THEN "absent"
        ELSE DescriptorState(Loads(text).value)

\* C21: the orchestrator consumes the Locator Registry each cycle: after the
\* Learning Workflow has committed a descriptor for a role, every cycle a
\* running detection thread begins locates that role with the committed
\* descriptor.
C21_CycleUsesCommitted ==
    [][\A i \in Threads :
          BeginsCycle(i) =>
              \A r \in Roles :
                  StoredState(r) # "absent" => threads[i].elements[r] = StoredState(r)]_vars

\* C40: monitoring can be started again after a stop: every start of
\* monitoring navigates the browser to the configured address, so a page
\* load is in progress after it (and its end starts a detection thread).
C40_StartNavigates ==
    [][(~app.is_monitoring /\ app'.is_monitoring) => page'.loading]_vars

\* ----------------------------------------------------------------------
\* The settings store under the controls of the window (SpecSettings)
\* ----------------------------------------------------------------------

\* the values the interval combo box and the frequency spin box hand to set
SettingValues(key) ==
    IF key = "check_interval" THEN {Plain("30"), Plain("60"), Plain("300")}
    ELSE {Plain("1"), Plain("5")}

\* _connect_signals: "currentIndexChanged.connect(lambda index:
\* self.config_manager.set('check_interval', ...))" and the like
OnSettingChanged(key, value, db_ok) ==
    /\ store' = ConfigSetCall(store, key, value, db_ok)
    /\ UNCHANGED <<app, threads, page, recVars, appRest>>

InitSettings ==
    /\ app = NewApp
    /\ threads = <<>>
    /\ page = NewPage(AppOffers)
    /\ store = NewStore(EmptyDb, 1)

StartSettings ==
    now = 0 /\ IdleOrch /\ InitRecovery /\ IdleCadence /\ IdleFusion /\ InitSettings

NextSettings ==
    \/ \E key \in FixedKeys, db_ok \in BOOLEAN :
           \E value \in SettingValues(key) : OnSettingChanged(key, value, db_ok)
    \/ Restart

SpecSettings == StartSettings /\ [][NextSettings]_vars

\* C22: ConfigManager.set returns True whenever the value was stored in the
\* cache and written to the database, and False only when storing failed.
C22_SetReturnsSuccess ==
    store.last_set.called => (store.last_set.returned <=> store.last_set.written)

\* ----------------------------------------------------------------------
\* Claims about the steps of the Learning Workflow (SpecStore)
\* ----------------------------------------------------------------------

\* the role the workflow is at
CurrentRole == RoleSeq[app.learning_step + 1]

\* C33: the roles are captured in the order of RoleSeq; the step index
\* advances by exactly one, and only when the test of a confirmed pick
\* passes; after a rejection or a failed test the script of the same role
\* is injected again and the index is unchanged; the results are written
\* to the store only when the index reaches four.
C33_StepsAdvanceOnPass ==
    /\ [][(app'.learning_elements # app.learning_elements
               /\ app'.learning_elements # EmptyDict) =>
             /\ page'.verdict \in {"none", "failed"}
             /\ \E d \in page.offers :
                   app'.learning_elements = SetKey(app.learning_elements, CurrentRole, d)]_vars
    /\ [][(app'.learning_step # app.learning_step /\ app'.learning_step # 0) =>
             /\ app'.learning_step = app.learning_step + 1
             /\ page.ui_script = "test"
             /\ CurrentRole \in DOMAIN app.learning_elements
             /\ page'.verdict = "passed"]_vars
    /\ [][(page'.verdict \in {"rejected", "failed"}
               /\ (page'.verdict # page.verdict \/ page.ui_script = "test")) =>
             /\ app'.learning_step = app.learning_step
             /\ page'.ui_script = "learning"]_vars
    /\ [][(store'.db # store.db /\ store'.session = store.session) =>
             /\ app.learning_step = Len(RoleSeq) - 1
             /\ page.ui_script = "test"
             /\ page'.verdict = "passed"]_vars

\* C33 witness: the fourth test has passed and the four descriptors are in
\* the table.
C33_Witness ==
    /\ app.learning_step = Len(RoleSeq)
    /\ page.verdict = "passed"
    /\ ~app.is_learning
    /\ \A r \in Roles : LearningKey(r) \in DOMAIN store.db

\* C34: while the workflow asks for a role (again), learning_elements holds
\* no descriptor for that role: the descriptor of a pick that was rejected
\* or failed its test has been discarded.
C34_FailedPickDiscarded ==
    (app.is_learning /\ page.ui_script = "learning"
        /\ page.verdict \in {"rejected", "failed"}) =>
            CurrentRole \notin DOMAIN app.learning_elements

=============================================================================
